---------------------------- MODULE Spec2Model ----------------------------
(***************************************************************************)
(* memAlpha: the memory storage engine (src/src/memory_store.py) over a    *)
(* ChromaDB persistent client, with the embedding provider it consumes     *)
(* (src/src/embeddings.py) and the request models (src/src/models.py).     *)
(*                                                                         *)
(* Text is a sequence of one-character strings, so that sanitization,      *)
(* name building and JSON (de)serialization are computed character by      *)
(* character as the code computes them.  An Optional value is a sequence   *)
(* of length at most one: << >> is None, << x >> is the value x.           *)
(***************************************************************************)
EXTENDS Naturals, Sequences, FiniteSets, TLC

(***************************************************************************)
(* Bounds of the model.                                                    *)
(***************************************************************************)
\* how many uuid4() values the model lets store_memory draw
MaxStores == 2
\* the largest instant datetime.now() reaches
MaxClock == 1
\* the distances of the index are the fractions num/den up to these
MaxDistanceNum == 9
MaxDistanceDen == 6

None == << >>
Some(x) == << x >>

(***************************************************************************)
(* Text helpers.                                                           *)
(***************************************************************************)
Range(s) == { s[i] : i \in 1..Len(s) }

RECURSIVE Concat(_)
\* "".join(parts)
Concat(parts) ==
    IF parts = << >> THEN << >> ELSE Head(parts) \o Concat(Tail(parts))

Digit(d) == CASE d = 0 -> "0" [] d = 1 -> "1" [] d = 2 -> "2" [] d = 3 -> "3"
              [] d = 4 -> "4" [] d = 5 -> "5" [] d = 6 -> "6" [] d = 7 -> "7"
              [] d = 8 -> "8" [] d = 9 -> "9"

DigitChars == { "0", "1", "2", "3", "4", "5", "6", "7", "8", "9" }

DigitValue(c) == CHOOSE d \in 0..9 : Digit(d) = c

RECURSIVE IntToStr(_)
\* str(n) of a non-negative integer
IntToStr(n) ==
    IF n < 10 THEN << Digit(n) >> ELSE IntToStr(n \div 10) \o << Digit(n % 10) >>

RECURSIVE StrToInt(_)
\* int(s) of a non-empty digit string
StrToInt(s) ==
    IF Len(s) = 1 THEN DigitValue(s[1])
    ELSE 10 * StrToInt(SubSeq(s, 1, Len(s) - 1)) + DigitValue(s[Len(s)])

(***************************************************************************)
(* _get_collection_name: re.sub(r'[^a-zA-Z0-9_-]', '_', id) on both ids,   *)
(* then f"p_{safe_project}_a_{safe_agent}_emb_{provider}".                 *)
(***************************************************************************)
SafeChars ==
    { "a", "b", "c", "d", "e", "f", "g", "h", "i", "j", "k", "l", "m",
      "n", "o", "p", "q", "r", "s", "t", "u", "v", "w", "x", "y", "z",
      "A", "B", "C", "D", "E", "F", "G", "H", "I", "J", "K", "L", "M",
      "N", "O", "P", "Q", "R", "S", "T", "U", "V", "W", "X", "Y", "Z" }
    \cup DigitChars \cup { "_", "-" }

\* a substitution that leaves every character as it is
Sanitize_unchanged(id) == id

\* re.sub(r'[^a-zA-Z0-9_-]', '_', id)
Sanitize(id) == [ i \in 1..Len(id) |-> IF id[i] \in SafeChars THEN id[i] ELSE "_" ]

\* a collection name without the provider
get_collection_name_unnamespaced(provider, project_id, agent_id) ==
    << "p", "_" >> \o Sanitize(project_id) \o << "_", "a", "_" >> \o Sanitize(agent_id)

get_collection_name(provider, project_id, agent_id) ==
    << "p", "_" >> \o Sanitize(project_id) \o << "_", "a", "_" >>
        \o Sanitize(agent_id) \o << "_", "e", "m", "b", "_" >>
        \o provider.provider_name

(***************************************************************************)
(* JSON.  A metadata mapping (a Python dict with string keys) is a         *)
(* sequence of [k, v] entries in insertion order with distinct keys; a     *)
(* value is a string [t |-> "str", s |-> text] or a non-negative integer   *)
(* [t |-> "int", n |-> number].  Two dicts are == when they hold the same  *)
(* entries, whatever the order.                                            *)
(***************************************************************************)
JStr(s) == [ t |-> "str", s |-> s, n |-> 0 ]
JInt(n) == [ t |-> "int", s |-> << >>, n |-> n ]

DictEq(d1, d2) == Range(d1) = Range(d2)

RECURSIVE EscapeText(_)
\* json.dumps escapes the quote and the backslash inside a string
EscapeText(s) ==
    IF s = << >> THEN << >>
    ELSE (IF Head(s) \in { "\"", "\\" } THEN << "\\", Head(s) >> ELSE << Head(s) >>)
             \o EscapeText(Tail(s))

DumpString(s) == << "\"" >> \o EscapeText(s) \o << "\"" >>

DumpValue(v) == IF v.t = "str" THEN DumpString(v.s) ELSE IntToStr(v.n)

RECURSIVE DumpItems(_)
\* the entries, joined by ", ", each as "key": value
DumpItems(d) ==
    IF d = << >> THEN << >>
    ELSE DumpString(Head(d).k) \o << ":", " " >> \o DumpValue(Head(d).v)
             \o (IF Tail(d) = << >> THEN << >> ELSE << ",", " " >> \o DumpItems(Tail(d)))

\* json.dumps(metadata)
serialize_metadata(metadata) == << "{" >> \o DumpItems(metadata) \o << "}" >>

RECURSIVE ParseStringBody(_, _, _)
\* s[i] is the first character after the opening quote; the result is the
\* decoded text and the index after the closing quote
ParseStringBody(s, i, acc) ==
    IF s[i] = "\"" THEN [ val |-> acc, next |-> i + 1 ]
    ELSE IF s[i] = "\\" THEN ParseStringBody(s, i + 2, Append(acc, s[i + 1]))
    ELSE ParseStringBody(s, i + 1, Append(acc, s[i]))

RECURSIVE ParseDigits(_, _, _)
ParseDigits(s, i, acc) ==
    IF i <= Len(s) /\ s[i] \in DigitChars THEN ParseDigits(s, i + 1, Append(acc, s[i]))
    ELSE [ val |-> StrToInt(acc), next |-> i ]

ParseValue(s, i) ==
    IF s[i] = "\""
    THEN LET r == ParseStringBody(s, i + 1, << >>) IN [ val |-> JStr(r.val), next |-> r.next ]
    ELSE LET r == ParseDigits(s, i, << >>) IN [ val |-> JInt(r.val), next |-> r.next ]

RECURSIVE SkipSpace(_, _)
SkipSpace(s, i) == IF i <= Len(s) /\ s[i] = " " THEN SkipSpace(s, i + 1) ELSE i

RECURSIVE ParseMembers(_, _, _)
\* s[i] starts a member or closes the object; a later duplicate of a key
\* replaces the earlier entry, as in a Python dict
ParseMembers(s, i, acc) ==
    LET j == SkipSpace(s, i) IN
    IF s[j] = "}" THEN acc
    ELSE IF s[j] = "," THEN ParseMembers(s, j + 1, acc)
    ELSE LET key == ParseStringBody(s, j + 1, << >>)
             c   == SkipSpace(s, key.next)
             \* s[c] = ":"
             val == ParseValue(s, SkipSpace(s, c + 1))
             kept == SelectSeq(acc, LAMBDA e : e.k # key.val)
         IN  ParseMembers(s, val.next, Append(kept, [ k |-> key.val, v |-> val.val ]))

\* json.loads(text) of an object
JsonLoads(text) == ParseMembers(text, SkipSpace(text, 1) + 1, << >>)

\* _deserialize_metadata: the empty string gives {}
\* the test of the empty string inverted
deserialize_metadata_inverted(metadata_str) ==
    IF metadata_str # << >> THEN << >> ELSE JsonLoads(metadata_str)

deserialize_metadata(metadata_str) ==
    IF metadata_str = << >> THEN << >> ELSE JsonLoads(metadata_str)


(***************************************************************************)
(* datetime.isoformat() and datetime.fromisoformat(): an instant is a      *)
(* natural number and its text form is its decimal numeral.                *)
(***************************************************************************)
isoformat(t) == IntToStr(t)
fromisoformat(s) == StrToInt(s)

(***************************************************************************)
(* Embedding providers (src/src/embeddings.py).  A vector is kept as what  *)
(* determines it: the backend and model that produced it, the text it was  *)
(* computed from, and its length.                                          *)
(***************************************************************************)
LocalEmbedding ==
    [ provider_name |-> << "l", "o", "c", "a", "l" >>,
      model_name    |-> << "a", "l", "l", "-", "M", "i", "n", "i", "L", "M", "-",
                          "L", "6", "-", "v", "2" >>,
      dimension     |-> 384 ]

OpenAIEmbedding ==
    [ provider_name |-> << "o", "p", "e", "n", "a", "i" >>,
      model_name    |-> << "t", "e", "x", "t", "-", "e", "m", "b", "e", "d", "d", "i",
                          "n", "g", "-", "3", "-", "s", "m", "a", "l", "l" >>,
      dimension     |-> 1536 ]

\* OpenAIEmbedding with MEMALPHA_OPENAI_MODEL=text-embedding-ada-002
OpenAIEmbeddingAda ==
    [ provider_name |-> << "o", "p", "e", "n", "a", "i" >>,
      model_name    |-> << "t", "e", "x", "t", "-", "e", "m", "b", "e", "d", "d", "i",
                          "n", "g", "-", "a", "d", "a", "-", "0", "0", "2" >>,
      dimension     |-> 1536 ]

Providers == { LocalEmbedding, OpenAIEmbedding }

\* the embedding configurations the environment variables can select
Configurations == { LocalEmbedding, OpenAIEmbedding, OpenAIEmbeddingAda }

\* embedding_provider.embed(text)
embed(provider, text) ==
    [ by   |-> << provider.provider_name, provider.model_name >>,
      text |-> text,
      dim  |-> provider.dimension ]

(***************************************************************************)
(* The vector index (chromadb).  client.get_or_create_collection is called *)
(* without an embedding_function, so every collection carries chromadb's   *)
(* default one (ONNX all-MiniLM-L6-v2, 384 numbers): it is what the index  *)
(* applies to documents it is given without embeddings.                    *)
(***************************************************************************)
CollectionEmbeddingFunction(text) ==
    [ by   |-> << << "c", "h", "r", "o", "m", "a" >>,
                  << "d", "e", "f", "a", "u", "l", "t" >> >>,
      text |-> text,
      dim  |-> 384 ]

\* the ids of a collection, in iteration order
IdsOf(coll) == [ i \in 1..Len(coll.records) |-> coll.records[i].id ]

HasId(coll, id) == \E i \in 1..Len(coll.records) : coll.records[i].id = id

\* collection.get(ids=[id])
collection_get(coll, id) == SelectSeq(coll.records, LAMBDA r : r.id = id)

\* collection.add(ids=[id], embeddings=[e], documents=[d], metadatas=[m]);
\* a record whose id the collection already holds is not inserted again
collection_add(coll, id, embedding, document, metadata) ==
    IF HasId(coll, id) THEN coll
    ELSE [ coll EXCEPT !.records =
             Append(@, [ id |-> id, embedding |-> embedding,
                         document |-> document, metadata |-> metadata ]) ]

\* the length of the vectors a collection holds (None while it is empty)
CollectionDimension(coll) ==
    IF coll.records = << >> THEN None ELSE Some(coll.records[1].embedding.dim)

\* an update that inserts the record when the collection does not hold the id
collection_update_upsert(coll, id, embedding, document, metadata) ==
    LET e == IF embedding = None THEN CollectionEmbeddingFunction(document)
             ELSE embedding[1]
        record == [ id |-> id, embedding |-> e, document |-> document,
                    metadata |-> metadata ]
    IN  IF HasId(coll, id)
        THEN [ coll EXCEPT !.records =
                 [ i \in 1..Len(@) |-> IF @[i].id = id THEN record ELSE @[i] ] ]
        ELSE [ coll EXCEPT !.records = Append(@, record) ]

\* collection.update(ids=[id], embeddings=..., documents=[d], metadatas=[m]):
\* `embedding` is Optional.  Without one, the index computes the vector of
\* the supplied document with the collection's embedding function.  An id
\* the collection does not hold is skipped.
collection_update(coll, id, embedding, document, metadata) ==
    LET e == IF embedding = None THEN CollectionEmbeddingFunction(document)
             ELSE embedding[1]
    IN  [ coll EXCEPT !.records =
            [ i \in 1..Len(@) |->
                IF @[i].id = id
                THEN [ id |-> id, embedding |-> e,
                       document |-> document, metadata |-> metadata ]
                ELSE @[i] ] ]

\* whether the index rejects the vector of an update: its length differs
\* from the length of the vectors the collection holds
UpdateDimensionMismatch(coll, embedding, document) ==
    LET e == IF embedding = None THEN CollectionEmbeddingFunction(document)
             ELSE embedding[1]
    IN  CollectionDimension(coll) # None /\ CollectionDimension(coll)[1] # e.dim

\* a delete that is not restricted to the id: every record of the collection goes
collection_delete_all(coll, id) ==
    [ coll EXCEPT !.records = << >> ]

\* collection.delete(ids=[id]): an id the collection does not hold is skipped
collection_delete(coll, id) ==
    [ coll EXCEPT !.records = SelectSeq(@, LAMBDA r : r.id # id) ]

\* _get_or_create_collection on the client's collections: the collection of
\* that name as it is, or a new empty one carrying the descriptive metadata
get_or_create_collection(colls, provider, project_id, agent_id) ==
    LET name == get_collection_name(provider, project_id, agent_id) IN
    IF name \in DOMAIN colls THEN colls
    ELSE (name :> [ metadata |-> [ project_id          |-> project_id,
                                   agent_id            |-> agent_id,
                                   embedding_provider  |-> provider.provider_name,
                                   embedding_model     |-> provider.model_name,
                                   embedding_dimension |-> provider.dimension ],
                    records  |-> << >> ]) @@ colls

(***************************************************************************)
(* The state.                                                              *)
(***************************************************************************)
VARIABLES
    provider,     \* self.embedding_provider of the MemoryStore
    collections,  \* self.client: collection name -> [metadata, records]
    uuidCount,    \* how many values uuid.uuid4() has returned
    clock,        \* the instant datetime.now() returns
    returned,     \* history: the memory_ids store_memory has returned, in order
    orig,         \* history: memory_id -> the Memory store_memory returned, for
                  \*          the ids no update or delete call has named since
    deletedTrue,  \* history: the <<project_id, agent_id, memory_id>> of the
                  \*          stored memories whose delete_memory returned True
    distance,     \* a distance the index reports for a result of a query
    similarity_score, \* Optional: the score search_memories computes from it
    inflight,     \* the calls in progress on other threads: for each its
                  \*          request, its position and what it has read
    scratchpads   \* the scratchpad directory: file name -> the JSON it holds

vars == << provider, collections, uuidCount, clock, returned, orig, deletedTrue,
          distance, similarity_score,
          inflight, scratchpads >>

(***************************************************************************)
(* What the callers supply.                                                *)
(***************************************************************************)
Scopes ==
    { [ project_id |-> << "a" >>,           agent_id |-> << "a" >> ],
      [ project_id |-> << "a", "_", "a" >>, agent_id |-> << "a" >> ],
      [ project_id |-> << "a", "/", "a" >>, agent_id |-> << "a" >> ] }
Contents   == { << "x" >>, << "y" >> }
Metadatas  ==
    { << >>,
      << [ k |-> << "k" >>, v |-> JStr(<< "v", "\"" >>) ],
         [ k |-> << "n" >>, v |-> JInt(10) ] >> }

\* a memory_id no uuid4() call returns, as in the tests' "nonexistent"
NonexistentId == 0

\* the n-th value of uuid.uuid4() (n counts from 0): 122 random bits, taken
\* as a value that no other call returns
\* an id that does not depend on the draw
uuid4_fixed(n) == NonexistentId + 1

uuid4(n) == n + 1

\* the memory_ids a caller can name: those handed out so far, and a made-up one
KnownIds == { NonexistentId } \cup { uuid4(n) : n \in 0..(uuidCount - 1) }

\* which external call fails during an operation, if the operation makes it:
\* the collection lookup, the provider's embed, the index's read, the index's
\* write, the index's own embedding of a document
Faults == { "none", "collection", "embed", "read", "write", "index_embed" }

\* MemoryCreate: metadata defaults to the empty mapping
MemoryCreates ==
    { [ project_id |-> sc.project_id, agent_id |-> sc.agent_id,
        content |-> c, metadata |-> m ] : sc \in Scopes, c \in Contents, m \in Metadatas }

\* MemoryUpdate: content and metadata are Optional
MemoryUpdates ==
    [ content : { None, Some(<< "y" >>) },
      metadata : { None } \cup { Some(m) : m \in Metadatas } ]

\* update requests with the failure each meets: every request on a working
\* backend, and each external call of update_memory failing
UpdateCalls ==
    { [ update |-> u, fault |-> "none" ] : u \in MemoryUpdates }
    \cup { [ update |-> [ content |-> Some(<< "y" >>), metadata |-> None ], fault |-> f ] :
             f \in { "embed", "write" } }
    \cup { [ update |-> [ content |-> None, metadata |-> Some(<< >>) ], fault |-> f ] :
             f \in { "index_embed", "write" } }

(***************************************************************************)
(* The Memory model (src/src/models.py) and the metadata envelope the      *)
(* engine keeps with each record (the chroma_metadata dict).               *)
(***************************************************************************)
Memory(memory_id, project_id, agent_id, content, metadata, embedding_provider, embedding_model, created_at, updated_at) ==
    [ memory_id          |-> memory_id,
      project_id         |-> project_id,
      agent_id           |-> agent_id,
      content            |-> content,
      metadata           |-> metadata,
      embedding_provider |-> embedding_provider,
      embedding_model    |-> embedding_model,
      created_at         |-> created_at,
      updated_at         |-> updated_at ]

\* the envelope with created_at taken from the instant of the write
ChromaMetadata_createdNow(project_id, agent_id, metadata, embedding_provider, embedding_model, created_at, updated_at) ==
    [ project_id         |-> project_id,
      agent_id           |-> agent_id,
      custom_metadata    |-> serialize_metadata(metadata),
      embedding_provider |-> embedding_provider,
      embedding_model    |-> embedding_model,
      created_at         |-> isoformat(updated_at),
      updated_at         |-> isoformat(updated_at) ]

ChromaMetadata(project_id, agent_id, metadata, embedding_provider, embedding_model, created_at, updated_at) ==
    [ project_id         |-> project_id,
      agent_id           |-> agent_id,
      custom_metadata    |-> serialize_metadata(metadata),
      embedding_provider |-> embedding_provider,
      embedding_model    |-> embedding_model,
      created_at         |-> isoformat(created_at),
      updated_at         |-> isoformat(updated_at) ]

\* the Memory built from a record of the index (get_memory, search_memories)
MemoryOfRecord(r) ==
    Memory(r.id, r.metadata.project_id, r.metadata.agent_id, r.document,
           deserialize_metadata(r.metadata.custom_metadata),
           r.metadata.embedding_provider, r.metadata.embedding_model,
           fromisoformat(r.metadata.created_at), fromisoformat(r.metadata.updated_at))

\* the collection a scope resolves to, once it exists
CollectionOf(colls, prov, project_id, agent_id) ==
    colls[get_collection_name(prov, project_id, agent_id)]

\* the outcome of a call: the client's collections after it, the value it
\* returns (Optional, or a list), the external call whose failure it raised
\* ("none" when it returned), and the texts it gave to embedding_provider.embed
Outcome(colls, ret, raised, embeds) ==
    [ colls |-> colls, ret |-> ret, raised |-> raised, embeds |-> embeds ]

\* get_memory answering a missing id with a default Memory
GetMemory_default(colls, prov, project_id, agent_id, memory_id, fault) ==
    IF fault = "collection" THEN Outcome(colls, None, "collection", << >>)
    ELSE
    LET colls1 == get_or_create_collection(colls, prov, project_id, agent_id)
        result == collection_get(CollectionOf(colls1, prov, project_id, agent_id), memory_id)
    IN  IF fault = "read" THEN Outcome(colls1, None, "read", << >>)
        ELSE IF result = << >>
        THEN Outcome(colls1,
                     Some(Memory(memory_id, project_id, agent_id, << >>, << >>,
                                 prov.provider_name, prov.model_name, 0, 0)),
                     "none", << >>)
        ELSE Outcome(colls1, Some(MemoryOfRecord(result[1])), "none", << >>)

(***************************************************************************)
(* MemoryStore.get_memory                                                  *)
(***************************************************************************)
GetMemory(colls, prov, project_id, agent_id, memory_id, fault) ==
    IF fault = "collection" THEN Outcome(colls, None, "collection", << >>)
    ELSE
    LET colls1 == get_or_create_collection(colls, prov, project_id, agent_id)
        result == collection_get(CollectionOf(colls1, prov, project_id, agent_id), memory_id)
    IN  IF fault = "read" THEN Outcome(colls1, None, "read", << >>)
        ELSE IF result = << >> THEN Outcome(colls1, None, "none", << >>)
        ELSE Outcome(colls1, Some(MemoryOfRecord(result[1])), "none", << >>)

\* store_memory writing the record before the vector is computed
StoreMemory_addFirst(colls, prov, memory_id, now, mc, fault) ==
    IF fault = "collection" THEN Outcome(colls, None, "collection", << >>)
    ELSE
    LET colls1 == get_or_create_collection(colls, prov, mc.project_id, mc.agent_id)
        name   == get_collection_name(prov, mc.project_id, mc.agent_id)
        chroma_metadata ==
            ChromaMetadata(mc.project_id, mc.agent_id, mc.metadata,
                           prov.provider_name, prov.model_name, now, now)
        added  == [ colls1 EXCEPT ![name] =
                      collection_add(@, memory_id, CollectionEmbeddingFunction(mc.content),
                                     mc.content, chroma_metadata) ]
    IN  IF fault = "write" THEN Outcome(colls1, None, "write", << >>)
        ELSE IF fault = "embed" THEN Outcome(added, None, "embed", << mc.content >>)
        ELSE Outcome(
                 [ added EXCEPT ![name] =
                     collection_update(@, memory_id, Some(embed(prov, mc.content)),
                                       mc.content, chroma_metadata) ],
                 Some(Memory(memory_id, mc.project_id, mc.agent_id, mc.content,
                             mc.metadata, prov.provider_name, prov.model_name, now, now)),
                 "none", << mc.content >>)

(***************************************************************************)
(* MemoryStore.store_memory                                                *)
(***************************************************************************)
StoreMemory(colls, prov, memory_id, now, mc, fault) ==
    IF fault = "collection" THEN Outcome(colls, None, "collection", << >>)
    ELSE
    LET colls1 == get_or_create_collection(colls, prov, mc.project_id, mc.agent_id)
        name   == get_collection_name(prov, mc.project_id, mc.agent_id)
        embedding == embed(prov, mc.content)
        chroma_metadata ==
            ChromaMetadata(mc.project_id, mc.agent_id, mc.metadata,
                           prov.provider_name, prov.model_name, now, now)
        memory ==
            Memory(memory_id, mc.project_id, mc.agent_id, mc.content, mc.metadata,
                   prov.provider_name, prov.model_name, now, now)
    IN  \* embed first; the record is written after it has returned
        IF fault = "embed" THEN Outcome(colls1, None, "embed", << mc.content >>)
        \* the index refuses a vector of another length than those it holds
        ELSE IF UpdateDimensionMismatch(colls1[name], Some(embedding), mc.content)
        THEN Outcome(colls1, None, "dimension", << mc.content >>)
        ELSE IF fault = "write" THEN Outcome(colls1, None, "write", << mc.content >>)
        ELSE Outcome(
                 [ colls1 EXCEPT ![name] =
                     collection_add(@, memory_id, embedding, mc.content, chroma_metadata) ],
                 Some(memory), "none", << mc.content >>)

(***************************************************************************)
(* MemoryStore.update_memory                                               *)
(***************************************************************************)
\* re-embedding only when the supplied content differs from the stored one
ContentSupplied_changed(update, existing) ==
    update.content # None /\ update.content[1] # existing.content

\* "if update.content is not None": whether the call re-embeds
ContentSupplied(update, existing) == update.content # None

\* the supplied mapping laid over the stored one, key by key
NewMetadata_merged(update, existing) ==
    IF update.metadata # None
    THEN update.metadata[1]
         \o SelectSeq(existing.metadata,
                      LAMBDA e : \A i \in 1..Len(update.metadata[1]) :
                                    update.metadata[1][i].k # e.k)
    ELSE existing.metadata

\* new_content and new_metadata: the supplied field, else the stored one
NewContent(update, existing) ==
    IF update.content # None THEN update.content[1] ELSE existing.content

NewMetadata(update, existing) ==
    IF update.metadata # None THEN update.metadata[1] ELSE existing.metadata

UpdateMemory(colls, prov, now, project_id, agent_id, memory_id, update, fault) ==
    LET got == GetMemory(colls, prov, project_id, agent_id, memory_id, fault) IN
    IF got.raised # "none" THEN got
    ELSE IF got.ret = None THEN Outcome(got.colls, None, "none", << >>)
    ELSE
    LET existing == got.ret[1]
        colls1   == get_or_create_collection(got.colls, prov, project_id, agent_id)
        name     == get_collection_name(prov, project_id, agent_id)
        new_content  == NewContent(update, existing)
        new_metadata == NewMetadata(update, existing)
        chroma_metadata ==
            ChromaMetadata(project_id, agent_id, new_metadata,
                           existing.embedding_provider, existing.embedding_model,
                           existing.created_at, now)
        memory ==
            Memory(memory_id, project_id, agent_id, new_content, new_metadata,
                   existing.embedding_provider, existing.embedding_model,
                   existing.created_at, now)
    IN  IF ContentSupplied(update, existing)
        THEN \* re-embed, then one update with the vector, the document and the metadata
             LET new_embedding == Some(embed(prov, new_content)) IN
             IF fault = "embed" THEN Outcome(colls1, None, "embed", << new_content >>)
             ELSE IF UpdateDimensionMismatch(colls1[name], new_embedding, new_content)
             THEN Outcome(colls1, None, "dimension", << new_content >>)
             ELSE IF fault = "write" THEN Outcome(colls1, None, "write", << new_content >>)
             ELSE Outcome(
                      [ colls1 EXCEPT ![name] =
                          collection_update(@, memory_id, new_embedding,
                                            new_content, chroma_metadata) ],
                      Some(memory), "none", << new_content >>)
        ELSE \* the document and the metadata are passed, no vector: the index
             \* embeds the document itself
             IF fault = "index_embed" THEN Outcome(colls1, None, "index_embed", << >>)
             ELSE IF UpdateDimensionMismatch(colls1[name], None, new_content)
             THEN Outcome(colls1, None, "dimension", << >>)
             ELSE IF fault = "write" THEN Outcome(colls1, None, "write", << >>)
             ELSE Outcome(
                      [ colls1 EXCEPT ![name] =
                          collection_update(@, memory_id, None,
                                            new_content, chroma_metadata) ],
                      Some(memory), "none", << >>)

\* delete_memory answering True whether or not collection.delete raised
DeleteMemory_alwaysTrue(colls, prov, project_id, agent_id, memory_id, fault) ==
    IF fault = "collection" THEN Outcome(colls, None, "collection", << >>)
    ELSE
    LET colls1 == get_or_create_collection(colls, prov, project_id, agent_id)
        name   == get_collection_name(prov, project_id, agent_id)
    IN  IF fault = "write" THEN Outcome(colls1, Some(TRUE), "none", << >>)
        ELSE Outcome([ colls1 EXCEPT ![name] = collection_delete(@, memory_id) ],
                     Some(TRUE), "none", << >>)

(***************************************************************************)
(* MemoryStore.delete_memory: the collection lookup is outside the try,    *)
(* collection.delete inside it                                             *)
(***************************************************************************)
DeleteMemory(colls, prov, project_id, agent_id, memory_id, fault) ==
    IF fault = "collection" THEN Outcome(colls, None, "collection", << >>)
    ELSE
    LET colls1 == get_or_create_collection(colls, prov, project_id, agent_id)
        name   == get_collection_name(prov, project_id, agent_id)
    IN  IF fault = "write" THEN Outcome(colls1, Some(FALSE), "none", << >>)
        ELSE Outcome([ colls1 EXCEPT ![name] = collection_delete(@, memory_id) ],
                     Some(TRUE), "none", << >>)

(***************************************************************************)
(* collection.query: the metadata fields of a record as the index sees     *)
(* them (the caller's metadata is one string under "custom_metadata"), the *)
(* where clause, the distance and the nearest-first order.                 *)
(***************************************************************************)
ChromaMetadataItems(m) ==
    << [ k |-> << "p", "r", "o", "j", "e", "c", "t", "_", "i", "d" >>,
         v |-> JStr(m.project_id) ],
       [ k |-> << "a", "g", "e", "n", "t", "_", "i", "d" >>,
         v |-> JStr(m.agent_id) ],
       [ k |-> << "c", "u", "s", "t", "o", "m", "_", "m", "e", "t", "a", "d", "a", "t", "a" >>,
         v |-> JStr(m.custom_metadata) ],
       [ k |-> << "e", "m", "b", "e", "d", "d", "i", "n", "g", "_",
                  "p", "r", "o", "v", "i", "d", "e", "r" >>,
         v |-> JStr(m.embedding_provider) ],
       [ k |-> << "e", "m", "b", "e", "d", "d", "i", "n", "g", "_", "m", "o", "d", "e", "l" >>,
         v |-> JStr(m.embedding_model) ],
       [ k |-> << "c", "r", "e", "a", "t", "e", "d", "_", "a", "t" >>,
         v |-> JStr(m.created_at) ],
       [ k |-> << "u", "p", "d", "a", "t", "e", "d", "_", "a", "t" >>,
         v |-> JStr(m.updated_at) ] >>

\* where = {field: value, ...}: every named field of the record equals the value
WhereMatches(where, r) ==
    where = None
    \/ \A e \in Range(where[1]) : e \in Range(ChromaMetadataItems(r.metadata))

\* the index's distance between the query vector and a stored vector
Distance(q, e) == IF q.text = e.text THEN 0 ELSE 1

RECURSIVE InsertByDistance(_, _, _)
\* r placed after the records of `sorted` that are at least as near to q
InsertByDistance(sorted, r, q) ==
    IF sorted = << >> THEN << r >>
    ELSE IF Distance(q, r.embedding) < Distance(q, Head(sorted).embedding)
         THEN << r >> \o sorted
         ELSE << Head(sorted) >> \o InsertByDistance(Tail(sorted), r, q)

RECURSIVE NearestFirst(_, _)
NearestFirst(records, q) ==
    IF records = << >> THEN << >>
    ELSE InsertByDistance(NearestFirst(SubSeq(records, 1, Len(records) - 1), q),
                          records[Len(records)], q)

Min(a, b) == IF a <= b THEN a ELSE b

\* collection.query(query_embeddings=[q], n_results=k, where=w): the k nearest
\* of the records that match
collection_query(coll, q, n_results, where) ==
    LET matching == SelectSeq(coll.records, LAMBDA r : WhereMatches(where, r))
        ranked   == NearestFirst(matching, q)
    IN  SubSeq(ranked, 1, Min(n_results, Len(ranked)))

\* a non-negative number as the fraction num/den
Rational(num, den) == [ num |-> num, den |-> den ]

\* the inverse without the "1.0 +": 1.0 / distance
SimilarityScore_inverse(d) == Rational(d.den, d.num)

\* the distance itself taken as the score, capped at 1.0
SimilarityScore_asDistance(d) ==
    IF d.num <= d.den THEN d ELSE Rational(1, 1)

\* similarity = 1.0 / (1.0 + distance), then min(similarity, 1.0); for the
\* distance num/den that is den / (den + num)
SimilarityScore(d) ==
    LET similarity == Rational(d.den, d.den + d.num)
    IN  IF similarity.num <= similarity.den THEN similarity ELSE Rational(1, 1)

(***************************************************************************)
(* MemoryStore.search_memories                                             *)
(***************************************************************************)
SearchMemories(colls, prov, project_id, agent_id, query, limit, filters, fault) ==
    IF fault = "collection" THEN Outcome(colls, << >>, "collection", << >>)
    ELSE
    LET colls1 == get_or_create_collection(colls, prov, project_id, agent_id)
        query_embedding == embed(prov, query)
        \* "if filters:" an empty mapping is no filter
        where   == IF filters # None /\ filters[1] # << >> THEN filters ELSE None
        results == collection_query(CollectionOf(colls1, prov, project_id, agent_id),
                                    query_embedding, limit, where)
    IN  IF fault = "embed" THEN Outcome(colls1, << >>, "embed", << query >>)
        ELSE IF fault = "read" THEN Outcome(colls1, << >>, "read", << query >>)
        \* the index refuses n_results <= 0
        ELSE IF limit <= 0 THEN Outcome(colls1, << >>, "n_results", << query >>)
        \* and a query vector of another length than the vectors it holds
        ELSE IF UpdateDimensionMismatch(CollectionOf(colls1, prov, project_id, agent_id),
                                        Some(query_embedding), query)
        THEN Outcome(colls1, << >>, "dimension", << query >>)
        ELSE Outcome(colls1,
                 [ i \in 1..Len(results) |->
                     [ memory |-> MemoryOfRecord(results[i]),
                       similarity_score |->
                           SimilarityScore(
                               Rational(Distance(query_embedding, results[i].embedding), 1)) ] ],
                 "none", << query >>)

(***************************************************************************)
(* MemoryStore.list_memories: all records, then the slice                  *)
(* [offset : offset + limit]; the filters argument is not used             *)
(***************************************************************************)
MemoryMetadataOfRecord(r) ==
    [ memory_id          |-> r.id,
      project_id         |-> r.metadata.project_id,
      agent_id           |-> r.metadata.agent_id,
      metadata           |-> deserialize_metadata(r.metadata.custom_metadata),
      embedding_provider |-> r.metadata.embedding_provider,
      embedding_model    |-> r.metadata.embedding_model,
      created_at         |-> fromisoformat(r.metadata.created_at),
      updated_at         |-> fromisoformat(r.metadata.updated_at) ]

\* the slice taken as [offset : limit]: the end of the slice is the limit
\* itself, not offset + limit
ListMemories_sliceToLimit(colls, prov, project_id, agent_id, limit, offset, filters, fault) ==
    IF fault = "collection" THEN Outcome(colls, << >>, "collection", << >>)
    ELSE
    LET colls1 == get_or_create_collection(colls, prov, project_id, agent_id)
        result == CollectionOf(colls1, prov, project_id, agent_id).records
        sliced == SubSeq(result, offset + 1, Min(limit, Len(result)))
    IN  IF fault = "read" THEN Outcome(colls1, << >>, "read", << >>)
        ELSE Outcome(colls1,
                     [ i \in 1..Len(sliced) |-> MemoryMetadataOfRecord(sliced[i]) ],
                     "none", << >>)

ListMemories(colls, prov, project_id, agent_id, limit, offset, filters, fault) ==
    IF fault = "collection" THEN Outcome(colls, << >>, "collection", << >>)
    ELSE
    LET colls1 == get_or_create_collection(colls, prov, project_id, agent_id)
        result == CollectionOf(colls1, prov, project_id, agent_id).records
        sliced == SubSeq(result, offset + 1, Min(offset + limit, Len(result)))
    IN  IF fault = "read" THEN Outcome(colls1, << >>, "read", << >>)
        ELSE Outcome(colls1,
                     [ i \in 1..Len(sliced) |-> MemoryMetadataOfRecord(sliced[i]) ],
                     "none", << >>)

(***************************************************************************)
(* The calls as steps of the system.  Each step is one whole call.         *)
(***************************************************************************)
\* whether the partition of the scope holds memory_id
Present(colls, prov, project_id, agent_id, memory_id) ==
    LET name == get_collection_name(prov, project_id, agent_id) IN
    name \in DOMAIN colls /\ HasId(colls[name], memory_id)

Forget(f, id) == [ i \in (DOMAIN f) \ { id } |-> f[i] ]

Init ==
    \* MEMALPHA_EMBEDDING_PROVIDER defaults to "local"
    /\ provider = LocalEmbedding
    /\ collections = << >>
    /\ uuidCount = 0
    /\ clock = 0
    /\ returned = << >>
    /\ orig = << >>
    /\ deletedTrue = { }
    /\ distance = Rational(0, 1)
    /\ similarity_score = None
    /\ inflight = << >>
    /\ scratchpads = << >>

store_memory(mc, fault) ==
    /\ uuidCount < MaxStores
    /\ LET memory_id == uuid4(uuidCount)
           out == StoreMemory(collections, provider, memory_id, clock, mc, fault)
       IN  /\ collections' = out.colls
           \* uuid4() is called after the collection lookup
           /\ uuidCount' = IF out.raised = "collection" THEN uuidCount ELSE uuidCount + 1
           /\ returned' = IF out.raised = "none"
                          THEN Append(returned, out.ret[1].memory_id) ELSE returned
           /\ orig' = IF out.raised = "none"
                      THEN (out.ret[1].memory_id :> out.ret[1]) @@ orig ELSE orig
    /\ UNCHANGED << provider, clock, deletedTrue,
                 distance, similarity_score,
                 inflight, scratchpads >>

get_memory(project_id, agent_id, memory_id, fault) ==
    /\ LET out == GetMemory(collections, provider, project_id, agent_id, memory_id, fault)
       IN  collections' = out.colls
    /\ UNCHANGED << provider, uuidCount, clock, returned, orig, deletedTrue,
                 distance, similarity_score,
                 inflight, scratchpads >>

update_memory(project_id, agent_id, memory_id, update, fault) ==
    /\ LET out == UpdateMemory(collections, provider, clock,
                               project_id, agent_id, memory_id, update, fault)
       IN  collections' = out.colls
    /\ orig' = Forget(orig, memory_id)
    /\ UNCHANGED << provider, uuidCount, clock, returned, deletedTrue,
                 distance, similarity_score,
                 inflight, scratchpads >>

delete_memory(project_id, agent_id, memory_id, fault) ==
    /\ LET out == DeleteMemory(collections, provider, project_id, agent_id, memory_id, fault)
           present == Present(collections, provider, project_id, agent_id, memory_id)
       IN  /\ collections' = out.colls
           /\ deletedTrue' = IF present /\ out.ret = Some(TRUE)
                             THEN deletedTrue \cup { << project_id, agent_id, memory_id >> }
                             ELSE deletedTrue
    /\ orig' = Forget(orig, memory_id)
    /\ UNCHANGED << provider, uuidCount, clock, returned,
                 distance, similarity_score,
                 inflight, scratchpads >>

search_memories(project_id, agent_id, query, limit, filters, fault) ==
    /\ LET out == SearchMemories(collections, provider, project_id, agent_id,
                                 query, limit, filters, fault)
       IN  collections' = out.colls
    /\ UNCHANGED << provider, uuidCount, clock, returned, orig, deletedTrue,
                 distance, similarity_score,
                 inflight, scratchpads >>

list_memories(project_id, agent_id, limit, offset, filters, fault) ==
    /\ LET out == ListMemories(collections, provider, project_id, agent_id,
                               limit, offset, filters, fault)
       IN  collections' = out.colls
    /\ UNCHANGED << provider, uuidCount, clock, returned, orig, deletedTrue,
                 distance, similarity_score,
                 inflight, scratchpads >>

\* time passes between calls
Tick ==
    /\ clock < MaxClock
    /\ clock' = clock + 1
    /\ UNCHANGED << provider, collections, uuidCount, returned, orig, deletedTrue,
                 distance, similarity_score,
                 inflight, scratchpads >>

\* the server is started again with another embedding configuration, on the
\* same data path
configure(c) ==
    /\ provider' = c
    /\ UNCHANGED << collections, uuidCount, clock, returned, orig, deletedTrue,
                    distance, similarity_score,
                 inflight, scratchpads >>

Queries == { << "x" >> }
SearchLimits == { 1, 2 }
ListLimits == { 1, 2 }
ListOffsets == { 0, 1 }
Filters == { None, Some(<< [ k |-> << "k" >>, v |-> JStr(<< "v", "\"" >>) ] >>) }

Next ==
    \/ \E mc \in MemoryCreates, f \in { "none", "embed", "write" } :
           store_memory(mc, f)
    \/ \E sc \in Scopes, id \in KnownIds :
           get_memory(sc.project_id, sc.agent_id, id, "none")
    \/ \E sc \in Scopes, id \in KnownIds, c \in UpdateCalls :
           update_memory(sc.project_id, sc.agent_id, id, c.update, c.fault)
    \/ \E sc \in Scopes, id \in KnownIds, f \in { "none", "write" } :
           delete_memory(sc.project_id, sc.agent_id, id, f)
    \/ \E sc \in Scopes, q \in Queries, k \in SearchLimits, w \in Filters :
           search_memories(sc.project_id, sc.agent_id, q, k, w, "none")
    \/ \E sc \in Scopes, k \in ListLimits, o \in ListOffsets :
           list_memories(sc.project_id, sc.agent_id, k, o, None, "none")

\* the calls, all made at one instant of the clock
Spec == Init /\ [][Next]_vars

\* stores, updates of every kind and deletes, with time passing between them
ClockCreates ==
    { mc \in MemoryCreates : mc.content = << "x" >> /\ mc.metadata = << >> }

\* an empty update, one of the content, one of the metadata, one of both
ClockUpdates ==
    { u \in MemoryUpdates : u.metadata = None \/ u.metadata[1] = << >> }

NextClock ==
    \/ \E mc \in ClockCreates : store_memory(mc, "none")
    \/ \E sc \in Scopes, id \in KnownIds, u \in ClockUpdates :
           update_memory(sc.project_id, sc.agent_id, id, u, "none")
    \/ \E sc \in Scopes, id \in KnownIds :
           delete_memory(sc.project_id, sc.agent_id, id, "none")
    \/ Tick

SpecClock == Init /\ [][NextClock]_vars

(***************************************************************************)
(* Scopes whose identifiers need no sanitizing, for the isolation of       *)
(* partitions: only store, get, search and list are called.                *)
(***************************************************************************)
IsolationScopes ==
    { [ project_id |-> << "a" >>,           agent_id |-> << "a" >> ],
      [ project_id |-> << "a" >>,           agent_id |-> << "a", "_", "a" >> ],
      [ project_id |-> << "a", "_", "a" >>, agent_id |-> << "a" >> ] }

IsolationCreates ==
    { [ project_id |-> sc.project_id, agent_id |-> sc.agent_id,
        content |-> c, metadata |-> << >> ] : sc \in IsolationScopes, c \in Contents }

NextIsolation ==
    \/ \E mc \in IsolationCreates : store_memory(mc, "none")
    \/ \E sc \in IsolationScopes, id \in KnownIds :
           get_memory(sc.project_id, sc.agent_id, id, "none")
    \/ \E sc \in IsolationScopes, q \in Queries, k \in SearchLimits :
           search_memories(sc.project_id, sc.agent_id, q, k, None, "none")
    \/ \E sc \in IsolationScopes, k \in ListLimits, o \in ListOffsets :
           list_memories(sc.project_id, sc.agent_id, k, o, None, "none")

SpecIsolation == Init /\ [][NextIsolation]_vars

(***************************************************************************)
(* Properties.  returned is the sequence of ids store_memory has returned, *)
(* orig maps an id to the Memory store_memory returned for it as long as   *)
(* no update_memory or delete_memory call has named the id, and            *)
(* deletedTrue holds the (project, agent, id) of the stored memories for   *)
(* which delete_memory has returned True.                                  *)
(***************************************************************************)
\* the records of every partition
Stored(colls) ==
    UNION { { << n, r >> : r \in Range(colls[n].records) } : n \in DOMAIN colls }

\* the record of memory_id in the partition of the scope
RecordOf(colls, prov, project_id, agent_id, memory_id) ==
    collection_get(CollectionOf(colls, prov, project_id, agent_id), memory_id)[1]

\* C1: a memory stored under one scope is not returned by get_memory,
\* search_memories or list_memories called with a scope that differs from it
\* in the project id, the agent id or both.
C1_Isolation ==
    \A id \in DOMAIN orig : \A sc \in IsolationScopes :
        (sc.project_id # orig[id].project_id \/ sc.agent_id # orig[id].agent_id) =>
            /\ GetMemory(collections, provider,
                         sc.project_id, sc.agent_id, id, "none").ret = None
            /\ \A q \in Queries, k \in SearchLimits :
                   LET found == SearchMemories(collections, provider, sc.project_id,
                                               sc.agent_id, q, k, None, "none").ret
                   IN  \A i \in 1..Len(found) : found[i].memory.memory_id # id
            /\ \A k \in ListLimits, o \in ListOffsets :
                   LET listed == ListMemories(collections, provider, sc.project_id,
                                              sc.agent_id, k, o, None, "none").ret
                   IN  \A i \in 1..Len(listed) : listed[i].memory_id # id

\* C2: get_memory with the id and the scope of a stored memory returns its
\* content, its metadata, its id and its scope as they were stored, whatever
\* calls were made on other ids in between.
C2_RoundTrip ==
    \A id \in DOMAIN orig :
        LET stored == orig[id]
            got == GetMemory(collections, provider,
                             stored.project_id, stored.agent_id, id, "none")
        IN  /\ got.raised = "none"
            /\ got.ret # None
            /\ got.ret[1].content = stored.content
            /\ DictEq(got.ret[1].metadata, stored.metadata)
            /\ got.ret[1].memory_id = id
            /\ got.ret[1].project_id = stored.project_id
            /\ got.ret[1].agent_id = stored.agent_id

\* a memory stored with metadata is still as stored after another memory was
\* stored and then updated or deleted
C2_Witness ==
    \E id \in DOMAIN orig :
        /\ orig[id].metadata # << >>
        /\ \E other \in Range(returned) : other # id /\ other \notin DOMAIN orig
        /\ GetMemory(collections, provider, orig[id].project_id, orig[id].agent_id,
                     id, "none").ret[1].metadata = orig[id].metadata

\* C3: no two ids store_memory has returned are equal, and no two records of
\* the store, in one partition or in two, have the same id; the id of a
\* deleted memory is among the returned ones, so it is not handed out again.
C3_UniqueIds ==
    /\ \A i, j \in 1..Len(returned) : i # j => returned[i] # returned[j]
    /\ \A s1, s2 \in Stored(collections) : s1[2].id = s2[2].id => s1 = s2
    /\ \A t \in deletedTrue :
           Cardinality({ i \in 1..Len(returned) : returned[i] = t[3] }) = 1

\* two memories were stored, the first was deleted and the second is present
C3_Witness ==
    /\ Len(returned) = 2
    /\ \E t \in deletedTrue : t[3] = returned[1]
    /\ \E s1 \in Stored(collections) : s1[2].id = returned[2]

\* C4: once delete_memory has returned True for a stored memory, get_memory
\* with the same scope and id returns None in every later state.
C4_DeletionFinality ==
    \A t \in deletedTrue :
        LET got == GetMemory(collections, provider, t[1], t[2], t[3], "none")
        IN  got.raised = "none" /\ got.ret = None

\* a memory was deleted and another one, stored in its partition, is present
C4_Witness ==
    \E t \in deletedTrue :
        /\ GetMemory(collections, provider, t[1], t[2], t[3], "none").ret = None
        /\ \E id \in Range(returned) :
               id # t[3] /\ Present(collections, provider, t[1], t[2], id)

\* C5: once delete_memory has returned True for a stored memory, another
\* delete_memory with the same scope and id returns False.
C5_SecondDeleteFalse ==
    \A t \in deletedTrue :
        DeleteMemory(collections, provider, t[1], t[2], t[3], "none").ret = Some(FALSE)

\* C6: get_memory and update_memory on an id the partition of the scope does
\* not hold return None without raising, also when the embedding provider or
\* the write to the index would fail, leave the records of every partition as
\* they are, and do the same when called again.
C6_IdempotentAbsence ==
    \A sc \in Scopes, id \in KnownIds :
        ~ Present(collections, provider, sc.project_id, sc.agent_id, id) =>
            LET got == GetMemory(collections, provider,
                                 sc.project_id, sc.agent_id, id, "none")
            IN  /\ got.raised = "none" /\ got.ret = None
                /\ Stored(got.colls) = Stored(collections)
                /\ GetMemory(got.colls, provider,
                             sc.project_id, sc.agent_id, id, "none").ret = None
                /\ \A u \in MemoryUpdates,
                      f \in { "none", "embed", "write", "index_embed" } :
                       LET out == UpdateMemory(collections, provider, clock,
                                               sc.project_id, sc.agent_id, id, u, f)
                       IN  /\ out.raised = "none" /\ out.ret = None
                           /\ out.embeds = << >>
                           /\ Stored(out.colls) = Stored(collections)
                           /\ UpdateMemory(out.colls, provider, clock, sc.project_id,
                                           sc.agent_id, id, u, f).ret = None

\* the id of a deleted memory is looked up in its partition, which holds
\* another memory
C6_Witness ==
    \E t \in deletedTrue :
        /\ ~ Present(collections, provider, t[1], t[2], t[3])
        /\ CollectionOf(collections, provider, t[1], t[2]).records # << >>
        /\ \A u \in MemoryUpdates :
               UpdateMemory(collections, provider, clock,
                            t[1], t[2], t[3], u, "none").ret = None

\* C7: an update_memory call without content gives nothing to
\* embedding_provider.embed and leaves the document and the vector of the
\* record as they were.
C7_NoContentKeepsVector ==
    \A sc \in Scopes, id \in KnownIds, u \in MemoryUpdates :
        (u.content = None
         /\ Present(collections, provider, sc.project_id, sc.agent_id, id)) =>
            LET before == RecordOf(collections, provider, sc.project_id, sc.agent_id, id)
                out == UpdateMemory(collections, provider, clock,
                                    sc.project_id, sc.agent_id, id, u, "none")
                after == RecordOf(out.colls, provider, sc.project_id, sc.agent_id, id)
            IN  /\ out.embeds = << >>
                /\ after.document = before.document
                /\ after.embedding = before.embedding

\* C8: every update_memory call with content gives the new content to
\* embedding_provider.embed, once.
C8_ContentAlwaysEmbedsOnce ==
    \A sc \in Scopes, id \in KnownIds, u \in MemoryUpdates :
        u.content # None =>
            UpdateMemory(collections, provider, clock, sc.project_id, sc.agent_id,
                         id, u, "none").embeds = << u.content[1] >>

\* C8, amended: an update_memory call with content that finds the memory in
\* the partition of the scope gives the new content to
\* embedding_provider.embed, once, whether or not the embedding or the write
\* then fails; a call that does not find the memory gives it nothing.
C8_FoundContentEmbedsOnce ==
    \A sc \in Scopes, id \in KnownIds, u \in MemoryUpdates,
       f \in { "none", "embed", "write" } :
        u.content # None =>
            LET out == UpdateMemory(collections, provider, clock,
                                    sc.project_id, sc.agent_id, id, u, f)
            IN  IF Present(collections, provider, sc.project_id, sc.agent_id, id)
                THEN out.embeds = << u.content[1] >>
                ELSE out.embeds = << >>

\* a memory whose content an update has replaced by the content it already
\* had is updated with that content again
C8_Witness ==
    \E sc \in Scopes, id \in Range(returned) :
        /\ id \notin DOMAIN orig
        /\ Present(collections, provider, sc.project_id, sc.agent_id, id)
        /\ RecordOf(collections, provider, sc.project_id, sc.agent_id, id).document
               = << "y" >>
        /\ UpdateMemory(collections, provider, clock, sc.project_id, sc.agent_id, id,
                        [ content |-> Some(<< "y" >>), metadata |-> None ],
                        "none").embeds = << << "y" >> >>

\* C9: after any completed calls the vector of each record is the embedding
\* provider's embedding of the record's document.
C9_VectorOfCurrentContent ==
    \A s1 \in Stored(collections) : s1[2].embedding = embed(provider, s1[2].document)

\* C10: when embedding_provider.embed fails in store_memory the call raises
\* that failure, returns nothing and leaves the records of every partition as
\* they were.
C10_EmbedFailureWritesNothing ==
    \A mc \in MemoryCreates :
        LET out == StoreMemory(collections, provider, uuid4(uuidCount), clock, mc, "embed")
        IN  /\ out.raised = "embed"
            /\ out.ret = None
            /\ out.embeds = << mc.content >>
            /\ Stored(out.colls) = Stored(collections)

\* a store_memory call has failed while the store holds a memory
C10_Witness ==
    /\ uuidCount > Len(returned)
    /\ Stored(collections) # { }
    /\ \E mc \in MemoryCreates :
           StoreMemory(collections, provider, uuid4(uuidCount), clock, mc,
                       "embed").raised = "embed"

\* C11: delete_memory raises nothing: whichever call to the storage engine
\* fails during it, the lookup of the collection or collection.delete, the
\* call returns False.
C11_DeleteNeverRaises ==
    \A sc \in Scopes, id \in KnownIds, f \in { "collection", "write" } :
        LET out == DeleteMemory(collections, provider, sc.project_id, sc.agent_id, id, f)
        IN  out.raised = "none" /\ out.ret = Some(FALSE)

(***************************************************************************)
(* The conversion of a distance to a score in search_memories, for the     *)
(* non-negative distances the index can report.                            *)
(***************************************************************************)
Distances ==
    { Rational(n, d) : n \in 0..MaxDistanceNum, d \in 1..MaxDistanceDen }

InitSimilarity ==
    /\ provider = LocalEmbedding
    /\ collections = << >>
    /\ uuidCount = 0
    /\ clock = 0
    /\ returned = << >>
    /\ orig = << >>
    /\ deletedTrue = { }
    /\ distance \in Distances
    /\ similarity_score = None
    /\ inflight = << >>
    /\ scratchpads = << >>

\* the body of the loop over the results: the score of one result
score_result ==
    /\ similarity_score = None
    /\ similarity_score' = Some(SimilarityScore(distance))
    /\ UNCHANGED << provider, collections, uuidCount, clock, returned, orig,
                    deletedTrue, distance, inflight, scratchpads >>

\* the next result, with its distance
next_result ==
    /\ similarity_score # None
    /\ distance' \in Distances
    /\ similarity_score' = None
    /\ UNCHANGED << provider, collections, uuidCount, clock, returned, orig,
                    deletedTrue, inflight, scratchpads >>

NextSimilarity == score_result \/ next_result

SpecSimilarity == InitSimilarity /\ [][NextSimilarity]_vars

\* C12: the score computed for a non-negative distance d, zero included, is
\* a number from 0 to 1 and equals 1 / (1 + d), which is min(1, 1 / (1 + d)).
C12_SimilarityBound ==
    similarity_score # None =>
        LET s == similarity_score[1]
        IN  /\ s.den > 0
            /\ 0 <= s.num /\ s.num <= s.den
            /\ s.num * (distance.den + distance.num) = s.den * distance.den

\* the score of a result at distance zero is 1
C12_Witness ==
    /\ similarity_score # None
    /\ distance.num = 0
    /\ similarity_score[1].num = similarity_score[1].den

(***************************************************************************)
(* The store under changing embedding configurations: the calls, and the   *)
(* restarts that select another provider or model.                         *)
(***************************************************************************)
ProviderScopes ==
    { [ project_id |-> << "a" >>, agent_id |-> << "a" >> ],
      [ project_id |-> << "a" >>, agent_id |-> << "b" >> ] }

NextProviders ==
    \/ \E c \in Configurations : configure(c)
    \/ \E sc \in ProviderScopes :
           store_memory([ project_id |-> sc.project_id, agent_id |-> sc.agent_id,
                          content |-> << "x" >>, metadata |-> << >> ], "none")
    \/ \E sc \in ProviderScopes, id \in KnownIds :
           get_memory(sc.project_id, sc.agent_id, id, "none")
    \/ \E sc \in ProviderScopes, id \in KnownIds :
           update_memory(sc.project_id, sc.agent_id, id,
                         [ content |-> Some(<< "y" >>), metadata |-> None ], "none")
    \/ \E sc \in ProviderScopes, id \in KnownIds :
           delete_memory(sc.project_id, sc.agent_id, id, "none")
    \/ \E sc \in ProviderScopes, q \in Queries :
           search_memories(sc.project_id, sc.agent_id, q, MaxStores, None, "none")
    \/ \E sc \in ProviderScopes :
           list_memories(sc.project_id, sc.agent_id, MaxStores, 0, None, "none")

SpecProviders == Init /\ [][NextProviders]_vars

\* C13: the records of one partition were all stored under one embedding
\* provider and one model: configurations that differ in the provider name
\* or in the model name never share a partition.
C13_OneConfigurationPerPartition ==
    \A n \in DOMAIN collections :
        \A r1, r2 \in Range(collections[n].records) :
            /\ r1.metadata.embedding_provider = r2.metadata.embedding_provider
            /\ r1.metadata.embedding_model = r2.metadata.embedding_model

\* C14: a memory stored under one provider is not returned by get_memory,
\* search_memories or list_memories called with its scope while a provider of
\* another name is configured, and get_memory returns it as it was stored
\* whenever a provider of the name it was stored under is configured.
C14_ProviderSwitchInvisibility ==
    \A id \in DOMAIN orig :
        LET m   == orig[id]
            got == GetMemory(collections, provider, m.project_id, m.agent_id, id, "none")
        IN  IF provider.provider_name # m.embedding_provider
            THEN /\ got.raised = "none" /\ got.ret = None
                 /\ \A q \in Queries, k \in SearchLimits :
                        LET found == SearchMemories(collections, provider, m.project_id,
                                                    m.agent_id, q, k, None, "none").ret
                        IN  \A i \in 1..Len(found) : found[i].memory.memory_id # id
                 /\ \A k \in ListLimits, o \in ListOffsets :
                        LET listed == ListMemories(collections, provider, m.project_id,
                                                   m.agent_id, k, o, None, "none").ret
                        IN  \A i \in 1..Len(listed) : listed[i].memory_id # id
            ELSE /\ got.raised = "none" /\ got.ret # None
                 /\ got.ret[1] = m

\* a memory was stored under the local provider, then one in the same scope
\* under openai, and the local provider is configured again: the first
\* memory is returned
C14_Witness ==
    /\ Len(returned) = 2
    /\ returned[1] \in DOMAIN orig /\ returned[2] \in DOMAIN orig
    /\ orig[returned[1]].embedding_provider = LocalEmbedding.provider_name
    /\ orig[returned[2]].embedding_provider = OpenAIEmbedding.provider_name
    /\ orig[returned[1]].project_id = orig[returned[2]].project_id
    /\ orig[returned[1]].agent_id = orig[returned[2]].agent_id
    /\ provider = LocalEmbedding
    /\ GetMemory(collections, provider, orig[returned[1]].project_id,
                 orig[returned[1]].agent_id, returned[1], "none").ret
           = Some(orig[returned[1]])

TimestampsStep ==
    \A n \in DOMAIN collections' :
        \A r2 \in Range(collections'[n].records) :
            IF n \in DOMAIN collections /\ HasId(collections[n], r2.id)
            THEN LET r == collection_get(collections[n], r2.id)[1]
                 IN  /\ r2.metadata.created_at = r.metadata.created_at
                     /\ fromisoformat(r.metadata.updated_at)
                            <= fromisoformat(r2.metadata.updated_at)
                     /\ r2 # r => r2.metadata.updated_at = isoformat(clock)
            ELSE /\ r2.metadata.created_at = isoformat(clock)
                 /\ r2.metadata.updated_at = isoformat(clock)

\* the timestamps of the records and of the calls in a state: created_at is
\* not after updated_at; store_memory returns created_at = updated_at = now;
\* every update_memory that returns (content, metadata, both or neither
\* supplied) returns and persists the stored created_at and updated_at = now
TimestampsState ==
    /\ \A s1 \in Stored(collections) :
           /\ fromisoformat(s1[2].metadata.created_at)
                  <= fromisoformat(s1[2].metadata.updated_at)
           /\ fromisoformat(s1[2].metadata.updated_at) <= clock
    /\ \A mc \in ClockCreates :
           LET out == StoreMemory(collections, provider, uuid4(uuidCount), clock, mc, "none")
           IN  out.ret[1].created_at = clock /\ out.ret[1].updated_at = clock
    /\ \A sc \in Scopes, id \in KnownIds, u \in ClockUpdates :
           Present(collections, provider, sc.project_id, sc.agent_id, id) =>
               LET before == RecordOf(collections, provider, sc.project_id, sc.agent_id, id)
                   out == UpdateMemory(collections, provider, clock,
                                       sc.project_id, sc.agent_id, id, u, "none")
                   after == RecordOf(out.colls, provider, sc.project_id, sc.agent_id, id)
               IN  /\ out.raised = "none" /\ out.ret # None
                   /\ after.metadata.created_at = before.metadata.created_at
                   /\ after.metadata.updated_at = isoformat(clock)
                   /\ out.ret[1].created_at = fromisoformat(before.metadata.created_at)
                   /\ out.ret[1].updated_at = clock

\* C16: store_memory sets created_at = updated_at; every update_memory that
\* succeeds keeps the created_at set at creation and sets updated_at to the
\* instant of the update; as the clock does not go back, created_at <=
\* updated_at holds for every record and updated_at never decreases.
C16_Timestamps == [] TimestampsState /\ [][TimestampsStep]_vars

\* a record created at instant 0 was last updated at the latest instant
C16_Witness ==
    \E s1 \in Stored(collections) :
        /\ s1[2].metadata.created_at = isoformat(0)
        /\ s1[2].metadata.updated_at = isoformat(MaxClock)
        /\ clock = MaxClock

\* C17: after an update_memory call that finds a memory, under whichever
\* scope arguments it finds it, get_memory reports the project_id and the
\* agent_id that were given to store_memory.
C17_ScopeImmutable ==
    \A id \in DOMAIN orig : \A sc \in Scopes, u \in MemoryUpdates :
        Present(collections, provider, sc.project_id, sc.agent_id, id) =>
            LET out == UpdateMemory(collections, provider, clock,
                                    sc.project_id, sc.agent_id, id, u, "none")
                after == GetMemory(out.colls, provider,
                                   sc.project_id, sc.agent_id, id, "none").ret
            IN  out.ret # None =>
                    /\ after # None
                    /\ after[1].project_id = orig[id].project_id
                    /\ after[1].agent_id = orig[id].agent_id
                    /\ out.ret[1].project_id = orig[id].project_id
                    /\ out.ret[1].agent_id = orig[id].agent_id

(***************************************************************************)
(* The requests as the server's call_tool receives them: the arguments of  *)
(* a tool call, each present or missing, from which MemoryCreate and       *)
(* MemoryUpdate are built and validated (src/src/models.py) before the     *)
(* store is called.                                                        *)
(***************************************************************************)
WhitespaceChars == { " ", "\t", "\n" }

RECURSIVE Strip(_)
\* str.strip()
Strip(v) ==
    IF v = << >> THEN v
    ELSE IF Head(v) \in WhitespaceChars THEN Strip(Tail(v))
    ELSE IF v[Len(v)] \in WhitespaceChars THEN Strip(SubSeq(v, 1, Len(v) - 1))
    ELSE v

\* the validator without the test of the stripped content
content_not_empty_unstripped(v) == v # << >>

\* the validator content_not_empty: it rejects "not v or not v.strip()"
content_not_empty(v) == v # << >> /\ Strip(v) # << >>

\* Field(..., min_length=1) on a required string: present and not empty
RequiredText(arg) == arg # None /\ Len(arg[1]) >= 1

\* MemoryCreate built without the constraints on project_id and agent_id
ValidMemoryCreate_contentOnly(arguments) ==
    RequiredText(arguments.content) /\ content_not_empty(arguments.content[1])

\* whether MemoryCreate(project_id=..., agent_id=..., content=...) validates
ValidMemoryCreate(arguments) ==
    /\ RequiredText(arguments.project_id)
    /\ RequiredText(arguments.agent_id)
    /\ RequiredText(arguments.content)
    /\ content_not_empty(arguments.content[1])

\* whether MemoryUpdate(content=..., metadata=...) validates
ValidMemoryUpdate(arguments) ==
    arguments.content = None
    \/ (Len(arguments.content[1]) >= 1 /\ content_not_empty(arguments.content[1]))

\* a missing argument read as the empty text (only reached when the
\* validation does not look at it)
TextOf(arg) == IF arg = None THEN << >> ELSE arg[1]

\* call_tool("store_memory", arguments): the request is built first, then
\* the store is called
CallStoreMemory(colls, prov, memory_id, now, arguments, fault) ==
    IF ~ ValidMemoryCreate(arguments)
    THEN Outcome(colls, None, "validation", << >>)
    ELSE StoreMemory(colls, prov, memory_id, now,
                     [ project_id |-> TextOf(arguments.project_id),
                       agent_id   |-> TextOf(arguments.agent_id),
                       content    |-> TextOf(arguments.content),
                       metadata   |-> << >> ],
                     fault)

\* call_tool("update_memory", arguments)
CallUpdateMemory(colls, prov, now, project_id, agent_id, memory_id, arguments, fault) ==
    IF ~ ValidMemoryUpdate(arguments)
    THEN Outcome(colls, None, "validation", << >>)
    ELSE UpdateMemory(colls, prov, now, project_id, agent_id, memory_id,
                      [ content |-> arguments.content, metadata |-> arguments.metadata ],
                      fault)

call_store_memory(arguments, fault) ==
    /\ uuidCount < MaxStores
    /\ LET memory_id == uuid4(uuidCount)
           out == CallStoreMemory(collections, provider, memory_id, clock, arguments, fault)
       IN  /\ collections' = out.colls
           /\ uuidCount' = IF out.raised \in { "validation", "collection" }
                           THEN uuidCount ELSE uuidCount + 1
           /\ returned' = IF out.raised = "none"
                          THEN Append(returned, out.ret[1].memory_id) ELSE returned
           /\ orig' = IF out.raised = "none"
                      THEN (out.ret[1].memory_id :> out.ret[1]) @@ orig ELSE orig
    /\ UNCHANGED << provider, clock, deletedTrue, distance, similarity_score,
                 inflight, scratchpads >>

call_update_memory(project_id, agent_id, memory_id, arguments, fault) ==
    /\ LET out == CallUpdateMemory(collections, provider, clock, project_id, agent_id,
                                   memory_id, arguments, fault)
       IN  collections' = out.colls
    /\ orig' = Forget(orig, memory_id)
    /\ UNCHANGED << provider, uuidCount, clock, returned, deletedTrue,
                    distance, similarity_score,
                 inflight, scratchpads >>

RawIds == { None, Some(<< >>), Some(<< "a" >>), Some(<< "b" >>) }

RawContents ==
    { None, Some(<< >>), Some(<< " " >>), Some(<< "\t", "\n" >>),
      Some(<< "x" >>), Some(<< " ", "y" >>) }

StoreArguments == [ project_id : RawIds, agent_id : RawIds, content : RawContents ]

UpdateArguments == [ content : RawContents, metadata : { None } ]

ValidationScopes ==
    { [ project_id |-> << "a" >>, agent_id |-> << "a" >> ],
      [ project_id |-> << "a" >>, agent_id |-> << "b" >> ] }

NextValidation ==
    \/ \E arguments \in StoreArguments, f \in { "none", "embed" } :
           call_store_memory(arguments, f)
    \/ \E sc \in ValidationScopes, id \in KnownIds,
          arguments \in UpdateArguments, f \in { "none", "embed" } :
           call_update_memory(sc.project_id, sc.agent_id, id, arguments, f)

SpecValidation == Init /\ [][NextValidation]_vars

\* C18: the content of every stored memory is not empty and not made of
\* whitespace only.
C18_ContentNeverBlank ==
    \A s1 \in Stored(collections) :
        s1[2].document # << >> /\ Strip(s1[2].document) # << >>

\* a stored memory holds content that an update has replaced, while a store
\* request and an update request with whitespace-only content are refused
C18_Witness ==
    /\ \E s1 \in Stored(collections) :
           /\ s1[2].id \notin DOMAIN orig
           /\ s1[2].document = << " ", "y" >>
           /\ ~ ValidMemoryUpdate([ content |-> Some(<< " " >>), metadata |-> None ])
    /\ ~ ValidMemoryCreate([ project_id |-> Some(<< "a" >>), agent_id |-> Some(<< "a" >>),
                             content |-> Some(<< "\t", "\n" >>) ])

\* the store requests C19 is about: content empty, whitespace-only or
\* missing, or project_id or agent_id missing or empty
RejectedStoreArguments ==
    { arguments \in StoreArguments :
        \/ arguments.content = None
        \/ Strip(arguments.content[1]) = << >>
        \/ arguments.project_id \in { None, Some(<< >>) }
        \/ arguments.agent_id \in { None, Some(<< >>) } }

RejectedUpdateArguments ==
    { arguments \in UpdateArguments :
        arguments.content # None /\ Strip(arguments.content[1]) = << >> }

\* C19: a store request with empty or whitespace-only content or with a
\* missing or empty project_id or agent_id, and an update request with empty
\* or whitespace-only content, fail in validation: nothing is given to
\* embedding_provider.embed and the collections and their records are as
\* before the call, whatever the state of the provider and of the index.
C19_RejectedBeforeAnyCall ==
    /\ \A arguments \in RejectedStoreArguments, f \in Faults :
           LET out == CallStoreMemory(collections, provider, uuid4(uuidCount), clock,
                                      arguments, f)
           IN  /\ out.raised = "validation" /\ out.ret = None
               /\ out.embeds = << >>
               /\ out.colls = collections
    /\ \A sc \in ValidationScopes, id \in KnownIds,
          arguments \in RejectedUpdateArguments, f \in Faults :
           LET out == CallUpdateMemory(collections, provider, clock, sc.project_id,
                                       sc.agent_id, id, arguments, f)
           IN  /\ out.raised = "validation" /\ out.ret = None
               /\ out.embeds = << >>
               /\ out.colls = collections

\* the store holds two memories, and requests with a missing project_id and
\* with whitespace-only content are refused
C19_Witness ==
    /\ Cardinality(Stored(collections)) = 2
    /\ CallStoreMemory(collections, provider, uuid4(uuidCount), clock,
                       [ project_id |-> None, agent_id |-> Some(<< "a" >>),
                         content |-> Some(<< "x" >>) ], "none").raised = "validation"
    /\ \E s1 \in Stored(collections) :
           CallUpdateMemory(collections, provider, clock, s1[2].metadata.project_id,
                            s1[2].metadata.agent_id, s1[2].id,
                            [ content |-> Some(<< " " >>), metadata |-> None ],
                            "none").raised = "validation"

\* the limits of a search, zero included
SearchLimitsFromZero == SearchLimits \cup { 0 }

\* C20: for every scope, query and limit search_memories returns a list of
\* at most limit results, and it returns the empty list, raising nothing,
\* when the partition of the scope holds no memory.
C20_SearchAtMostLimit ==
    \A sc \in Scopes, q \in Queries, k \in SearchLimitsFromZero, w \in Filters :
        LET out == SearchMemories(collections, provider, sc.project_id, sc.agent_id,
                                  q, k, w, "none")
        IN  /\ out.raised = "none"
            /\ Len(out.ret) <= k
            /\ (\A id \in KnownIds :
                    ~ Present(collections, provider, sc.project_id, sc.agent_id, id))
                   => out.ret = << >>

(***************************************************************************)
(* C21                                                                     *)
(***************************************************************************)
\* C21: search_memories with limit = 0 returns the empty list and raises
\* nothing, for every scope, query and filter, whether or not the scope
\* holds memories.
C21_ZeroLimitReturnsEmpty ==
    \A sc \in Scopes, q \in Queries, w \in Filters :
        LET out == SearchMemories(collections, provider, sc.project_id, sc.agent_id,
                                  q, 0, w, "none")
        IN  out.raised = "none" /\ out.ret = << >>

(***************************************************************************)
(* C22.  Pages of a listing: one scope, up to MaxListed memories stored,   *)
(* some deleted again, and list_memories called with every offset and      *)
(* limit from zero to beyond the number of memories.                       *)
(***************************************************************************)
MaxListed == 3

ListedScope == [ project_id |-> << "a" >>, agent_id |-> << "a" >> ]

ListedCreates ==
    { [ project_id |-> ListedScope.project_id, agent_id |-> ListedScope.agent_id,
        content |-> c, metadata |-> m ] : c \in Contents, m \in Metadatas }

PageLimits  == 0..(MaxListed + 1)
PageOffsets == 0..(MaxListed + 1)

\* store_memory, for as long as fewer than MaxListed ids have been handed out
store_listed(mc) ==
    /\ uuidCount < MaxListed
    /\ LET memory_id == uuid4(uuidCount)
           out == StoreMemory(collections, provider, memory_id, clock, mc, "none")
       IN  /\ collections' = out.colls
           /\ uuidCount' = uuidCount + 1
           /\ returned' = Append(returned, out.ret[1].memory_id)
           /\ orig' = (out.ret[1].memory_id :> out.ret[1]) @@ orig
    /\ UNCHANGED << provider, clock, deletedTrue, distance, similarity_score,
                 inflight, scratchpads >>

NextListed ==
    \/ \E mc \in ListedCreates : store_listed(mc)
    \/ \E id \in KnownIds :
           delete_memory(ListedScope.project_id, ListedScope.agent_id, id, "none")
    \/ \E k \in PageLimits, o \in PageOffsets :
           list_memories(ListedScope.project_id, ListedScope.agent_id, k, o, None, "none")

SpecListed == Init /\ [][NextListed]_vars

\* the records of the scope's partition in the order collection.get() gives them
FullIteration(colls, prov, project_id, agent_id) ==
    IF get_collection_name(prov, project_id, agent_id) \in DOMAIN colls
    THEN CollectionOf(colls, prov, project_id, agent_id).records
    ELSE << >>

Max(a, b) == IF a >= b THEN a ELSE b

\* C22: for every offset >= 0 and limit >= 0, list_memories returns
\* min(limit, max(0, n - offset)) items for a partition of n records, and its
\* i-th item is the metadata projection of the record at position offset + i
\* of the partition's full iteration order.
C22_ListIsSlice ==
    \A k \in PageLimits, o \in PageOffsets, w \in Filters :
        LET all == FullIteration(collections, provider,
                                 ListedScope.project_id, ListedScope.agent_id)
            out == ListMemories(collections, provider,
                                ListedScope.project_id, ListedScope.agent_id,
                                k, o, w, "none")
            n   == Len(all)
        IN  /\ out.raised = "none"
            /\ Len(out.ret) = Min(k, Max(0, IF n >= o THEN n - o ELSE 0))
            /\ \A i \in 1..Len(out.ret) :
                   out.ret[i] = MemoryMetadataOfRecord(all[o + i])

\* three memories are stored and offset = 1, limit = 1 lists exactly the
\* second of them
C22_Witness ==
    LET all == FullIteration(collections, provider,
                             ListedScope.project_id, ListedScope.agent_id)
        out == ListMemories(collections, provider,
                            ListedScope.project_id, ListedScope.agent_id,
                            1, 1, None, "none")
    IN  /\ Len(all) = 3
        /\ Len(out.ret) = 1
        /\ out.ret[1].memory_id = all[2].id
        /\ out.ret[1].memory_id # all[1].id
        /\ out.ret[1].memory_id # all[3].id

(***************************************************************************)
(* C23.  The records a call leaves alone.                                  *)
(***************************************************************************)
\* the records of partition n, without the one of memory_id
RecordsExcept(colls, n, memory_id) ==
    IF n \in DOMAIN colls
    THEN SelectSeq(colls[n].records, LAMBDA r : r.id # memory_id)
    ELSE << >>

\* every partition holds after the call the records it held before, in the
\* same order, except possibly the record of memory_id
OnlyTouches(before, after, memory_id) ==
    /\ DOMAIN before \subseteq DOMAIN after
    /\ \A n \in DOMAIN after :
           RecordsExcept(after, n, memory_id) = RecordsExcept(before, n, memory_id)

\* every partition holds after the call exactly the records it held before
TouchesNothing(before, after) ==
    /\ DOMAIN before \subseteq DOMAIN after
    /\ \A n \in DOMAIN after :
           after[n].records = IF n \in DOMAIN before THEN before[n].records ELSE << >>

\* the number of records over all partitions
RECURSIVE CountRecords(_, _)
CountRecords(colls, names) ==
    IF names = { } THEN 0
    ELSE LET n == CHOOSE x \in names : TRUE
         IN  Len(colls[n].records) + CountRecords(colls, names \ { n })

\* C23: a store_memory call that returns adds exactly one record, the one of
\* the new id, and leaves every other record as it was (one that fails adds
\* none); update_memory and delete_memory on id X leave every record other
\* than X as it was, in every partition; get_memory, search_memories and
\* list_memories change no record.
C23_Frame ==
    /\ \A mc \in MemoryCreates, f \in { "none", "embed", "write" } :
           uuidCount < MaxStores =>
               LET memory_id == uuid4(uuidCount)
                   out == StoreMemory(collections, provider, memory_id, clock, mc, f)
               IN  IF out.raised = "none"
                   THEN /\ OnlyTouches(collections, out.colls, memory_id)
                        /\ CountRecords(out.colls, DOMAIN out.colls)
                               = CountRecords(collections, DOMAIN collections) + 1
                        /\ \E n \in DOMAIN out.colls : HasId(out.colls[n], memory_id)
                   ELSE TouchesNothing(collections, out.colls)
    /\ \A sc \in Scopes, id \in KnownIds :
           /\ \A c \in UpdateCalls :
                  OnlyTouches(collections,
                              UpdateMemory(collections, provider, clock, sc.project_id,
                                           sc.agent_id, id, c.update, c.fault).colls,
                              id)
           /\ \A f \in { "none", "write" } :
                  OnlyTouches(collections,
                              DeleteMemory(collections, provider, sc.project_id,
                                           sc.agent_id, id, f).colls,
                              id)
           /\ TouchesNothing(collections,
                             GetMemory(collections, provider, sc.project_id,
                                       sc.agent_id, id, "none").colls)
    /\ \A sc \in Scopes :
           /\ \A q \in Queries, k \in SearchLimitsFromZero, w \in Filters :
                  TouchesNothing(collections,
                                 SearchMemories(collections, provider, sc.project_id,
                                                sc.agent_id, q, k, w, "none").colls)
           /\ \A k \in ListLimits, o \in ListOffsets, w \in Filters :
                  TouchesNothing(collections,
                                 ListMemories(collections, provider, sc.project_id,
                                              sc.agent_id, k, o, w, "none").colls)

\* one partition holds two memories; an update of the first changes its
\* record, and a delete of the first removes it, while the record of the
\* second stays as it was after either call
C23_Witness ==
    \E sc \in Scopes, id1, id2 \in KnownIds :
        /\ id1 # id2
        /\ Present(collections, provider, sc.project_id, sc.agent_id, id1)
        /\ Present(collections, provider, sc.project_id, sc.agent_id, id2)
        /\ LET before  == RecordOf(collections, provider, sc.project_id, sc.agent_id, id1)
               other   == RecordOf(collections, provider, sc.project_id, sc.agent_id, id2)
               updated == UpdateMemory(collections, provider, clock, sc.project_id,
                                       sc.agent_id, id1,
                                       [ content |-> Some(<< "y" >>), metadata |-> None ],
                                       "none").colls
               deleted == DeleteMemory(collections, provider, sc.project_id,
                                       sc.agent_id, id1, "none").colls
           IN  /\ RecordOf(updated, provider, sc.project_id, sc.agent_id, id1) # before
               /\ RecordOf(updated, provider, sc.project_id, sc.agent_id, id2) = other
               /\ ~ Present(deleted, provider, sc.project_id, sc.agent_id, id1)
               /\ RecordOf(deleted, provider, sc.project_id, sc.agent_id, id2) = other

(***************************************************************************)
(* C24.  Filters over the caller's metadata.                               *)
(***************************************************************************)
\* the caller's metadata has every field of the filter with the filter's value
Satisfies(metadata, filters) ==
    \A e \in Range(filters[1]) : e \in Range(metadata)

\* C24: search_memories with a filter over fields of the caller's metadata
\* returns only memories whose metadata satisfies the filter, and it returns
\* every stored memory of the scope whose metadata satisfies it when the
\* scope holds at most limit memories.
C24_FilterOnCallerMetadata ==
    \A sc \in Scopes, q \in Queries, k \in SearchLimits, w \in Filters \ { None } :
        LET out  == SearchMemories(collections, provider, sc.project_id, sc.agent_id,
                                   q, k, w, "none")
            held == FullIteration(collections, provider, sc.project_id, sc.agent_id)
        IN  out.raised = "none" =>
                /\ \A i \in 1..Len(out.ret) : Satisfies(out.ret[i].memory.metadata, w)
                /\ Len(held) <= k =>
                       \A j \in 1..Len(held) :
                           Satisfies(deserialize_metadata(held[j].metadata.custom_metadata), w)
                               => \E i \in 1..Len(out.ret) :
                                      out.ret[i].memory.memory_id = held[j].id

(***************************************************************************)
(* C25.  The recorded embedding identity.                                  *)
(***************************************************************************)
\* C25: in every state reached by store_memory and update_memory calls of
\* stores of any embedding configuration on the same data path, the
\* embedding_provider and embedding_model recorded for a memory are the
\* provider and the model that produced the vector stored for it.
C25_RecordedIdentityIsVectorOrigin ==
    \A n \in DOMAIN collections : \A r \in Range(collections[n].records) :
        r.embedding.by = << r.metadata.embedding_provider, r.metadata.embedding_model >>

(***************************************************************************)
(* The tool-call facade (src/src/server.py).  The module's memory_store is *)
(* None until main() has built the store; in this model the store of the   *)
(* running server is its embedding provider together with the collections  *)
(* on the data path, so "memory_store is None" is provider = None.  The    *)
(* texts call_tool returns are sequences of characters.                    *)
(***************************************************************************)
\* the names of the tools call_tool has a branch for
Tool ==
    [ store_memory    |-> << "s", "t", "o", "r", "e", "_", "m", "e", "m", "o", "r", "y" >>,
      search_memories |-> << "s", "e", "a", "r", "c", "h", "_", "m", "e", "m", "o", "r", "i", "e",
                             "s" >>,
      get_memory      |-> << "g", "e", "t", "_", "m", "e", "m", "o", "r", "y" >>,
      update_memory   |-> << "u", "p", "d", "a", "t", "e", "_", "m", "e", "m", "o", "r", "y" >>,
      delete_memory   |-> << "d", "e", "l", "e", "t", "e", "_", "m", "e", "m", "o", "r", "y" >>,
      list_memories   |-> << "l", "i", "s", "t", "_", "m", "e", "m", "o", "r", "i", "e", "s" >>,
      get_memory_suggestions |->
          << "g", "e", "t", "_", "m", "e", "m", "o", "r", "y", "_", "s", "u", "g",
             "g", "e", "s", "t", "i", "o", "n", "s" >> ]

\* values of the suggestions payload: a text, a number, a list of texts
JList(l) == [ t |-> "list", s |-> << >>, n |-> 0, l |-> l ]

\* get_memory_suggestions(): the same literal on every call
get_memory_suggestions ==
    [ suggested_categories |->
          << << "f", "a", "c", "t" >>, << "p", "r", "o", "c", "e", "d", "u", "r", "e" >>,
             << "p", "r", "e", "f", "e", "r", "e", "n", "c", "e" >>,
             << "c", "o", "n", "t", "e", "x", "t" >>, << "d", "e", "c", "i", "s", "i", "o", "n" >>,
             << "i", "s", "s", "u", "e" >> >>,
      metadata_fields |->
          << [ k |-> << "t", "a", "g", "s" >>,
               v |-> << "L", "i", "s", "t", " ", "o", "f", " ", "t", "a", "g", "s", " ", "f",
                        "o", "r", " ", "c", "a", "t", "e", "g", "o", "r", "i", "z", "a", "t",
                        "i", "o", "n", " ", "(", "e", ".", "g", ".", ",", " ", "[", "'", "b",
                        "a", "c", "k", "e", "n", "d", "'", ",", " ", "'", "a", "p", "i", "'",
                        "]", ")" >> ],
             [ k |-> << "c", "a", "t", "e", "g", "o", "r", "y" >>,
               v |-> << "O", "n", "e", " ", "o", "f", " ", "t", "h", "e", " ", "s", "u", "g",
                        "g", "e", "s", "t", "e", "d", " ", "c", "a", "t", "e", "g", "o", "r",
                        "i", "e", "s", " ", "a", "b", "o", "v", "e" >> ],
             [ k |-> << "i", "m", "p", "o", "r", "t", "a", "n", "c", "e" >>,
               v |-> << "I", "n", "t", "e", "g", "e", "r", " ", "0", "-", "1", "0", " ", "i",
                        "n", "d", "i", "c", "a", "t", "i", "n", "g", " ", "i", "m", "p", "o",
                        "r", "t", "a", "n", "c", "e" >> ],
             [ k |-> << "s", "o", "u", "r", "c", "e" >>,
               v |-> << "W", "h", "e", "r", "e", " ", "t", "h", "i", "s", " ", "i", "n", "f",
                        "o", "r", "m", "a", "t", "i", "o", "n", " ", "c", "a", "m", "e", " ",
                        "f", "r", "o", "m" >> ],
             [ k |-> << "r", "e", "l", "a", "t", "e", "d", "_", "t", "o" >>,
               v |-> << "I", "D", "s", " ", "o", "f", " ", "r", "e", "l", "a", "t", "e", "d",
                        " ", "m", "e", "m", "o", "r", "i", "e", "s" >> ] >>,
      examples |->
          << [ content  |-> << "U", "s", "e", "r", " ", "p", "r", "e", "f", "e", "r", "s", " ", "T",
                               "y", "p", "e", "S", "c", "r", "i", "p", "t", " ", "o", "v", "e", "r",
                               " ", "J", "a", "v", "a", "S", "c", "r", "i", "p", "t", " ", "f", "o",
                               "r", " ", "t", "y", "p", "e", " ", "s", "a", "f", "e", "t", "y" >>,
               metadata |->
                   << [ k |-> << "c", "a", "t", "e", "g", "o", "r", "y" >>,
                        v |-> JStr(<< "p", "r", "e", "f", "e", "r", "e", "n", "c", "e" >>) ],
                      [ k |-> << "t", "a", "g", "s" >>,
                        v |-> JList(<< << "l", "a", "n", "g", "u", "a", "g", "e" >>,
                                       << "t", "y", "p", "e", "s", "c", "r", "i", "p", "t" >> >>) ],
                      [ k |-> << "i", "m", "p", "o", "r", "t", "a", "n", "c", "e" >>,
                        v |-> JInt(8) ] >> ],
             [ content  |-> << "A", "u", "t", "h", "e", "n", "t", "i", "c", "a", "t", "i", "o", "n",
                               " ", "i", "m", "p", "l", "e", "m", "e", "n", "t", "e", "d", " ", "u",
                               "s", "i", "n", "g", " ", "J", "W", "T", " ", "w", "i", "t", "h", " ",
                               "7", "-", "d", "a", "y", " ", "e", "x", "p", "i", "r", "y" >>,
               metadata |->
                   << [ k |-> << "c", "a", "t", "e", "g", "o", "r", "y" >>,
                        v |-> JStr(<< "f", "a", "c", "t" >>) ],
                      [ k |-> << "t", "a", "g", "s" >>,
                        v |-> JList(<< << "s", "e", "c", "u", "r", "i", "t", "y" >>,
                                       << "a", "u", "t", "h" >>, << "j", "w", "t" >> >>) ],
                      [ k |-> << "i", "m", "p", "o", "r", "t", "a", "n", "c", "e" >>,
                        v |-> JInt(9) ] >> ],
             [ content  |-> << "T", "o", " ", "d", "e", "p", "l", "o", "y", ":", " ", "r", "u", "n",
                               " ", "'", "y", "a", "r", "n", " ", "b", "u", "i", "l", "d", "'", " ",
                               "t", "h", "e", "n", " ", "'", "y", "a", "r", "n", " ", "d", "e", "p",
                               "l", "o", "y", ":", "p", "r", "o", "d", "'" >>,
               metadata |->
                   << [ k |-> << "c", "a", "t", "e", "g", "o", "r", "y" >>,
                        v |-> JStr(<< "p", "r", "o", "c", "e", "d", "u", "r", "e" >>) ],
                      [ k |-> << "t", "a", "g", "s" >>,
                        v |-> JList(<< << "d", "e", "p", "l", "o", "y", "m", "e", "n", "t" >>,
                                       << "c", "o", "m", "m", "a", "n", "d", "s" >> >>) ],
                      [ k |-> << "i", "m", "p", "o", "r", "t", "a", "n", "c", "e" >>,
                        v |-> JInt(7) ] >> ] >>,
      best_practices |->
          << << "S", "t", "o", "r", "e", " ", "s", "p", "e", "c", "i", "f", "i", "c",
                ",", " ", "a", "c", "t", "i", "o", "n", "a", "b", "l", "e", " ", "i",
                "n", "f", "o", "r", "m", "a", "t", "i", "o", "n" >>,
             << "U", "s", "e", " ", "c", "o", "n", "s", "i", "s", "t", "e", "n", "t",
                " ", "t", "a", "g", "g", "i", "n", "g", " ", "a", "c", "r", "o", "s",
                "s", " ", "r", "e", "l", "a", "t", "e", "d", " ", "m", "e", "m", "o",
                "r", "i", "e", "s" >>,
             << "M", "a", "r", "k", " ", "i", "m", "p", "o", "r", "t", "a", "n", "t",
                " ", "d", "e", "c", "i", "s", "i", "o", "n", "s", " ", "w", "i", "t",
                "h", " ", "h", "i", "g", "h", " ", "i", "m", "p", "o", "r", "t", "a",
                "n", "c", "e", " ", "s", "c", "o", "r", "e", "s" >>,
             << "I", "n", "c", "l", "u", "d", "e", " ", "c", "o", "n", "t", "e", "x",
                "t", " ", "i", "n", " ", "t", "h", "e", " ", "c", "o", "n", "t", "e",
                "n", "t", ",", " ", "n", "o", "t", " ", "j", "u", "s", "t", " ", "f",
                "a", "c", "t", "s" >>,
             << "U", "p", "d", "a", "t", "e", " ", "m", "e", "m", "o", "r", "i", "e",
                "s", " ", "w", "h", "e", "n", " ", "i", "n", "f", "o", "r", "m", "a",
                "t", "i", "o", "n", " ", "c", "h", "a", "n", "g", "e", "s", " ", "r",
                "a", "t", "h", "e", "r", " ", "t", "h", "a", "n", " ", "c", "r", "e",
                "a", "t", "i", "n", "g", " ", "d", "u", "p", "l", "i", "c", "a", "t",
                "e", "s" >>,
             << "U", "s", "e", " ", "d", "e", "s", "c", "r", "i", "p", "t", "i", "v",
                "e", " ", "c", "o", "n", "t", "e", "n", "t", " ", "t", "h", "a", "t",
                " ", "w", "i", "l", "l", " ", "m", "a", "t", "c", "h", " ", "s", "e",
                "m", "a", "n", "t", "i", "c", " ", "s", "e", "a", "r", "c", "h", "e",
                "s" >> >> ]

\* repr() of a text without quote or backslash characters in single quotes
\* (the texts of this model have no single quote)
ReprText(s) == << "'" >> \o s \o << "'" >>

RECURSIVE JoinTexts(_, _)
\* sep.join(texts)
JoinTexts(texts, sep) ==
    IF texts = << >> THEN << >>
    ELSE IF Len(texts) = 1 THEN texts[1]
    ELSE texts[1] \o sep \o JoinTexts(Tail(texts), sep)

\* repr() of a metadata value
ReprValue(v) ==
    IF v.t = "str" THEN ReprText(v.s)
    ELSE IF v.t = "int" THEN IntToStr(v.n)
    ELSE << "[" >> \o JoinTexts([ i \in 1..Len(v.l) |-> ReprText(v.l[i]) ],
                                << ",", " " >>) \o << "]" >>

\* str() of a metadata mapping, as an f-string renders it: {'k': 'v', 'n': 10}
ReprDict(d) ==
    << "{" >>
    \o JoinTexts([ i \in 1..Len(d) |-> ReprText(d[i].k) \o << ":", " " >> \o ReprValue(d[i].v) ],
                 << ",", " " >>)
    \o << "}" >>

\* the memory_id (a uuid text in the program, a number here) as text
IdText(memory_id) == IntToStr(memory_id)

\* an instant as str() renders it
InstantText(t) == isoformat(t)

\* a score formatted with ":.3f": three decimals, rounded
Format3f(score) ==
    LET thousandths == (2000 * score.num + score.den) \div (2 * score.den)
        whole == thousandths \div 1000
        frac  == thousandths % 1000
    IN  IntToStr(whole) \o << "." >>
        \o << Digit(frac \div 100), Digit((frac \div 10) % 10), Digit(frac % 10) >>

\* the text of the "get_memory_suggestions" branch
SuggestionsText ==
    LET suggestions == get_memory_suggestions IN
    << "M", "e", "m", "o", "r", "y", " ", "S", "t", "r", "u", "c", "t", "u",
       "r", "e", " ", "S", "u", "g", "g", "e", "s", "t", "i", "o", "n", "s",
       "\n" >>
    \o [ i \in 1..50 |-> "=" ] \o << "\n", "\n" >>
    \o << "S", "u", "g", "g", "e", "s", "t", "e", "d", " ", "C", "a", "t", "e",
          "g", "o", "r", "i", "e", "s", ":", "\n" >>
    \o Concat([ i \in 1..Len(suggestions.suggested_categories) |->
                  << " ", " ", "-", " " >> \o suggestions.suggested_categories[i] \o << "\n" >> ])
    \o << "\n", "R", "e", "c", "o", "m", "m", "e", "n", "d", "e", "d", " ", "M",
          "e", "t", "a", "d", "a", "t", "a", " ", "F", "i", "e", "l", "d", "s",
          ":", "\n" >>
    \o Concat([ i \in 1..Len(suggestions.metadata_fields) |->
                  << " ", " ", "-", " " >> \o suggestions.metadata_fields[i].k \o << ":", " " >>
                  \o suggestions.metadata_fields[i].v \o << "\n" >> ])
    \o << "\n", "E", "x", "a", "m", "p", "l", "e", "s", ":", "\n" >>
    \o Concat([ i \in 1..Len(suggestions.examples) |->
                  << "\n" >> \o IntToStr(i) \o << ".", " ", "C", "o", "n", "t", "e", "n", "t", ":", " " >>
                  \o suggestions.examples[i].content \o << "\n" >>
                  \o << " ", " ", " ", "M", "e", "t", "a", "d", "a", "t", "a", ":", " " >>
                  \o ReprDict(suggestions.examples[i].metadata) \o << "\n" >> ])
    \o << "\n", "B", "e", "s", "t", " ", "P", "r", "a", "c", "t", "i", "c", "e",
          "s", ":", "\n" >>
    \o Concat([ i \in 1..Len(suggestions.best_practices) |->
                  << " ", " ", "-", " " >> \o suggestions.best_practices[i] \o << "\n" >> ])

\* str(e) without the cause: the text says only that the tool failed
ErrorText_withoutCause(name, cause) ==
    << "E", "r", "r", "o", "r", " ", "e", "x", "e", "c", "u", "t", "i", "n",
       "g", " " >> \o name

\* f"Error executing {name}: {str(e)}"
ErrorText(name, cause) ==
    << "E", "r", "r", "o", "r", " ", "e", "x", "e", "c", "u", "t", "i", "n",
       "g", " " >> \o name \o << ":", " " >> \o cause

\* str(e) of the exception a failing step raises: the text that names the
\* cause (a missing argument, the validation, the collection lookup, the
\* provider's embed, the index's read, write, own embedding, its check of
\* the vector length and of n_results)
str_e(raised) ==
    CASE raised = "key"         -> << "'", "p", "r", "o", "j", "e", "c", "t", "_", "i", "d", "'" >>
      [] raised = "validation"  -> << "v", "a", "l", "i", "d", "a", "t", "i", "o", "n", " ", "e", "r", "r",
                                      "o", "r", " ", "f", "o", "r", " ", "M", "e", "m", "o", "r", "y", "C",
                                      "r", "e", "a", "t", "e" >>
      [] raised = "collection"  -> << "c", "o", "l", "l", "e", "c", "t", "i", "o", "n", " ", "u", "n", "a",
                                      "v", "a", "i", "l", "a", "b", "l", "e" >>
      [] raised = "embed"       -> << "e", "m", "b", "e", "d", "d", "i", "n", "g", " ", "f", "a", "i", "l",
                                      "e", "d" >>
      [] raised = "read"        -> << "r", "e", "a", "d", " ", "f", "a", "i", "l", "e", "d" >>
      [] raised = "write"       -> << "w", "r", "i", "t", "e", " ", "f", "a", "i", "l", "e", "d" >>
      [] raised = "index_embed" -> << "i", "n", "d", "e", "x", " ", "e", "m", "b", "e", "d", "d", "i", "n",
                                      "g", " ", "f", "a", "i", "l", "e", "d" >>
      [] raised = "dimension"   -> << "E", "m", "b", "e", "d", "d", "i", "n", "g", " ", "d", "i", "m", "e",
                                      "n", "s", "i", "o", "n", " ", "d", "o", "e", "s", " ", "n", "o", "t",
                                      " ", "m", "a", "t", "c", "h", " ", "c", "o", "l", "l", "e", "c", "t",
                                      "i", "o", "n", " ", "d", "i", "m", "e", "n", "s", "i", "o", "n", "a",
                                      "l", "i", "t", "y" >>
      [] raised = "n_results"   -> << "N", "u", "m", "b", "e", "r", " ", "o", "f", " ", "r", "e", "q", "u",
                                      "e", "s", "t", "e", "d", " ", "r", "e", "s", "u", "l", "t", "s", " ",
                                      "0", ",", " ", "c", "a", "n", "n", "o", "t", " ", "b", "e", " ", "n",
                                      "e", "g", "a", "t", "i", "v", "e", ",", " ", "o", "r", " ", "z", "e",
                                      "r", "o", "." >>

\* arguments.get(key, default)
ArgumentOr(arg, default) == IF arg = None THEN default ELSE arg[1]

\* the body of call_tool's try block up to the store's answer: what the
\* store method returns or raises for the tool and its arguments.  Reading
\* arguments[key] of a key that was not sent raises KeyError.
ToolOutcome(colls, prov, memory_id, now, name, arguments, fault) ==
    \* the suggestions and the "Unknown tool" branch call no store method
    IF name \notin { Tool.store_memory, Tool.search_memories, Tool.get_memory,
                     Tool.update_memory, Tool.delete_memory, Tool.list_memories }
    THEN Outcome(colls, None, "none", << >>)
    ELSE IF arguments.project_id = None \/ arguments.agent_id = None
    THEN Outcome(colls, None, "key", << >>)
    ELSE IF name = Tool.store_memory
    THEN IF arguments.content = None THEN Outcome(colls, None, "key", << >>)
         ELSE CallStoreMemory(colls, prov, memory_id, now, arguments, fault)
    ELSE IF name = Tool.search_memories
    THEN IF arguments.query = None THEN Outcome(colls, None, "key", << >>)
         ELSE SearchMemories(colls, prov, arguments.project_id[1], arguments.agent_id[1],
                             arguments.query[1], ArgumentOr(arguments.limit, 10),
                             arguments.filters, fault)
    ELSE IF name = Tool.list_memories
    THEN ListMemories(colls, prov, arguments.project_id[1], arguments.agent_id[1],
                      ArgumentOr(arguments.limit, 100), ArgumentOr(arguments.offset, 0),
                      arguments.filters, fault)
    ELSE IF arguments.memory_id = None THEN Outcome(colls, None, "key", << >>)
    ELSE IF name = Tool.get_memory
    THEN GetMemory(colls, prov, arguments.project_id[1], arguments.agent_id[1],
                   arguments.memory_id[1], fault)
    ELSE IF name = Tool.update_memory
    THEN CallUpdateMemory(colls, prov, now, arguments.project_id[1], arguments.agent_id[1],
                          arguments.memory_id[1], arguments, fault)
    ELSE DeleteMemory(colls, prov, arguments.project_id[1], arguments.agent_id[1],
                      arguments.memory_id[1], fault)

\* f"Memory with ID '{arguments['memory_id']}' not found."
NotFoundText(memory_id) ==
    << "M", "e", "m", "o", "r", "y", " ", "w", "i", "t", "h", " ", "I", "D",
       " ", "'" >> \o IdText(memory_id) \o << "'", " ", "n", "o", "t", " ", "f", "o", "u", "n", "d", "." >>

\* the text call_tool returns once the store is initialized: the except
\* clause's text when the body raised, else the text of the tool's branch
\* for the store's answer `out`
ToolText(name, arguments, out) ==
    IF out.raised # "none" THEN ErrorText(name, str_e(out.raised))
    ELSE IF name = Tool.store_memory
    THEN LET memory == out.ret[1] IN
         << "M", "e", "m", "o", "r", "y", " ", "s", "t", "o", "r", "e", "d", " ",
            "s", "u", "c", "c", "e", "s", "s", "f", "u", "l", "l", "y", "!", "\n",
            "\n" >>
         \o << "M", "e", "m", "o", "r", "y", " ", "I", "D", ":", " " >> \o IdText(memory.memory_id)
         \o << "\n", "C", "o", "n", "t", "e", "n", "t", ":", " " >> \o memory.content
         \o << "\n", "M", "e", "t", "a", "d", "a", "t", "a", ":", " " >> \o ReprDict(memory.metadata)
         \o << "\n", "E", "m", "b", "e", "d", "d", "i", "n", "g", ":", " " >> \o memory.embedding_provider
         \o << "/" >> \o memory.embedding_model
    ELSE IF name = Tool.search_memories
    THEN LET results == out.ret IN
         IF results = << >>
         THEN << "N", "o", " ", "m", "e", "m", "o", "r", "i", "e", "s", " ", "f", "o",
                 "u", "n", "d", " ", "m", "a", "t", "c", "h", "i", "n", "g", " ", "y",
                 "o", "u", "r", " ", "q", "u", "e", "r", "y", "." >>
         ELSE << "F", "o", "u", "n", "d", " " >> \o IntToStr(Len(results))
              \o << " ", "r", "e", "l", "e", "v", "a", "n", "t", " ", "m", "e", "m", "o",
                    "r", "i", "e", "s", ":", "\n", "\n" >>
              \o Concat([ i \in 1..Len(results) |->
                    IntToStr(i) \o << ".", " ", "[", "S", "c", "o", "r", "e", ":", " " >>
                    \o Format3f(results[i].similarity_score)
                    \o << "]", " ", "(", "I", "D", ":", " " >> \o IdText(results[i].memory.memory_id)
                    \o << ")", "\n", " ", " ", " " >> \o results[i].memory.content
                    \o << "\n", " ", " ", " ", "M", "e", "t", "a", "d", "a", "t", "a", ":", " " >>
                    \o ReprDict(results[i].memory.metadata) \o << "\n", "\n" >> ])
    ELSE IF name = Tool.get_memory
    THEN IF out.ret = None THEN NotFoundText(arguments.memory_id[1])
         ELSE LET memory == out.ret[1] IN
              << "M", "e", "m", "o", "r", "y", " ", "I", "D", ":", " " >> \o IdText(memory.memory_id)
              \o << "\n", "C", "o", "n", "t", "e", "n", "t", ":", " " >> \o memory.content
              \o << "\n", "M", "e", "t", "a", "d", "a", "t", "a", ":", " " >> \o ReprDict(memory.metadata)
              \o << "\n", "C", "r", "e", "a", "t", "e", "d", ":", " " >> \o InstantText(memory.created_at)
              \o << "\n", "U", "p", "d", "a", "t", "e", "d", ":", " " >> \o InstantText(memory.updated_at)
              \o << "\n", "E", "m", "b", "e", "d", "d", "i", "n", "g", ":", " " >> \o memory.embedding_provider
              \o << "/" >> \o memory.embedding_model
    ELSE IF name = Tool.update_memory
    THEN IF out.ret = None THEN NotFoundText(arguments.memory_id[1])
         ELSE LET memory == out.ret[1] IN
              << "M", "e", "m", "o", "r", "y", " ", "u", "p", "d", "a", "t", "e", "d",
                 " ", "s", "u", "c", "c", "e", "s", "s", "f", "u", "l", "l", "y", "!",
                 "\n", "\n" >>
              \o << "M", "e", "m", "o", "r", "y", " ", "I", "D", ":", " " >> \o IdText(memory.memory_id)
              \o << "\n", "C", "o", "n", "t", "e", "n", "t", ":", " " >> \o memory.content
              \o << "\n", "M", "e", "t", "a", "d", "a", "t", "a", ":", " " >> \o ReprDict(memory.metadata)
              \o << "\n", "U", "p", "d", "a", "t", "e", "d", ":", " " >> \o InstantText(memory.updated_at)
    ELSE IF name = Tool.delete_memory
    THEN IF out.ret = Some(TRUE)
         THEN << "M", "e", "m", "o", "r", "y", " ", "'" >> \o IdText(arguments.memory_id[1])
              \o << "'", " ", "d", "e", "l", "e", "t", "e", "d", " ", "s", "u", "c", "c",
                    "e", "s", "s", "f", "u", "l", "l", "y", "." >>
         ELSE << "F", "a", "i", "l", "e", "d", " ", "t", "o", " ", "d", "e", "l", "e",
                 "t", "e", " ", "m", "e", "m", "o", "r", "y", " ", "'" >>
              \o IdText(arguments.memory_id[1]) \o << "'", "." >>
    ELSE IF name = Tool.list_memories
    THEN LET metadatas == out.ret IN
         IF metadatas = << >> THEN << "N", "o", " ", "m", "e", "m", "o", "r", "i", "e", "s", " ", "f", "o",
                                      "u", "n", "d", "." >>
         ELSE << "F", "o", "u", "n", "d", " " >> \o IntToStr(Len(metadatas)) \o << " ", "m", "e", "m", "o", "r", "i", "e", "s", ":", "\n", "\n" >>
              \o Concat([ i \in 1..Len(metadatas) |->
                    << "-", " ", "I", "D", ":", " " >> \o IdText(metadatas[i].memory_id)
                    \o << "\n", " ", " ", "M", "e", "t", "a", "d", "a", "t", "a", ":", " " >> \o ReprDict(metadatas[i].metadata)
                    \o << "\n", " ", " ", "C", "r", "e", "a", "t", "e", "d", ":", " " >> \o InstantText(metadatas[i].created_at)
                    \o << "\n", " ", " ", "U", "p", "d", "a", "t", "e", "d", ":", " " >> \o InstantText(metadatas[i].updated_at)
                    \o << "\n", "\n" >> ])
    ELSE IF name = Tool.get_memory_suggestions THEN SuggestionsText
    ELSE << "U", "n", "k", "n", "o", "w", "n", " ", "t", "o", "o", "l", ":", " " >> \o name

\* call_tool(name, arguments) up to the text: the collections it leaves and
\* the answer of the store method it called, if it got past
\* "if memory_store is None"
CallToolEffect(colls, prov, memory_id, now, name, arguments, fault) ==
    IF prov = None THEN Outcome(colls, None, "none", << >>)
    ELSE ToolOutcome(colls, prov, memory_id, now, name, arguments, fault)

\* call_tool(name, arguments): the text it returns
CallTool(colls, prov, memory_id, now, name, arguments, fault) ==
    IF prov = None THEN << "E", "r", "r", "o", "r", ":", " ", "M", "e", "m", "o", "r", "y", " ",
                           "s", "t", "o", "r", "e", " ", "n", "o", "t", " ", "i", "n", "i", "t",
                           "i", "a", "l", "i", "z", "e", "d" >>
    ELSE ToolText(name, arguments,
                  ToolOutcome(colls, prov, memory_id, now, name, arguments, fault))

\* one call of call_tool as a step of the server
call_tool(name, arguments, fault) ==
    /\ name = Tool.store_memory => uuidCount < MaxStores
    /\ LET memory_id == uuid4(uuidCount)
           out == CallToolEffect(collections, provider, memory_id, clock,
                                 name, arguments, fault)
           called  == provider # None
           stored  == called /\ name = Tool.store_memory /\ out.raised = "none"
           names   == called /\ name \in { Tool.update_memory, Tool.delete_memory }
                      /\ out.raised # "key"
           present == names /\ Present(collections, provider, arguments.project_id[1],
                                       arguments.agent_id[1], arguments.memory_id[1])
       IN  /\ collections' = out.colls
           \* uuid4() is called after the request is validated and the
           \* collection is found
           /\ uuidCount' = IF called /\ name = Tool.store_memory
                              /\ out.raised \notin { "key", "validation", "collection" }
                           THEN uuidCount + 1 ELSE uuidCount
           /\ returned' = IF stored THEN Append(returned, out.ret[1].memory_id)
                          ELSE returned
           /\ orig' = IF stored THEN (out.ret[1].memory_id :> out.ret[1]) @@ orig
                      ELSE IF names THEN Forget(orig, arguments.memory_id[1])
                      ELSE orig
           /\ deletedTrue' = IF present /\ name = Tool.delete_memory
                                /\ out.ret = Some(TRUE)
                             THEN deletedTrue \cup { << arguments.project_id[1],
                                                        arguments.agent_id[1],
                                                        arguments.memory_id[1] >> }
                             ELSE deletedTrue
    /\ UNCHANGED << provider, clock, distance, similarity_score, inflight, scratchpads >>

\* main(): get_embedding_provider() and MemoryStore(...) before the server runs
main(c) ==
    /\ provider = None
    /\ provider' = c
    /\ UNCHANGED << collections, uuidCount, clock, returned, orig, deletedTrue,
                    distance, similarity_score, inflight, scratchpads >>

\* the module as imported: memory_store = None, nothing on the data path
InitFacade ==
    /\ provider = None
    /\ collections = << >>
    /\ uuidCount = 0
    /\ clock = 0
    /\ returned = << >>
    /\ orig = << >>
    /\ deletedTrue = { }
    /\ distance = Rational(0, 1)
    /\ similarity_score = None
    /\ inflight = << >>
    /\ scratchpads = << >>

\* an argument bag with no key
NoArguments ==
    [ project_id |-> None, agent_id |-> None, memory_id |-> None, content |-> None,
      metadata |-> None, query |-> None, limit |-> None, offset |-> None,
      filters |-> None ]

FacadeScopes ==
    { [ project_id |-> << "a" >>, agent_id |-> << "a" >> ],
      [ project_id |-> << "a" >>, agent_id |-> << "b" >> ] }

\* the argument bag with the scope's two keys
ScopeArguments(sc) ==
    [ NoArguments EXCEPT !.project_id = Some(sc.project_id),
                         !.agent_id = Some(sc.agent_id) ]

\* the requests of the callers, each with the external call that fails in it
ToolCalls ==
    { [ name |-> Tool.store_memory, fault |-> f,
        arguments |-> [ ScopeArguments(sc) EXCEPT !.content = c ] ] :
          sc \in FacadeScopes, f \in { "none", "embed", "write" },
          c \in { None, Some(<< " " >>), Some(<< "x" >>), Some(<< "y" >>) } }
    \cup
    { [ name |-> Tool.search_memories, fault |-> f,
        arguments |-> [ ScopeArguments(sc) EXCEPT !.query = Some(<< "x" >>), !.limit = k ] ] :
          sc \in FacadeScopes, f \in { "none", "embed", "read" },
          k \in { None, Some(0), Some(1) } }
    \cup
    { [ name |-> Tool.get_memory, fault |-> f,
        arguments |-> [ ScopeArguments(sc) EXCEPT !.memory_id = Some(id) ] ] :
          sc \in FacadeScopes, f \in { "none", "read", "collection" }, id \in KnownIds }
    \cup
    { [ name |-> Tool.update_memory, fault |-> f,
        arguments |-> [ ScopeArguments(sc) EXCEPT !.memory_id = Some(id), !.content = c ] ] :
          sc \in FacadeScopes, f \in { "none", "embed", "write", "index_embed" },
          id \in KnownIds, c \in { None, Some(<< " " >>), Some(<< "y" >>) } }
    \cup
    { [ name |-> Tool.delete_memory, fault |-> f,
        arguments |-> [ ScopeArguments(sc) EXCEPT !.memory_id = Some(id) ] ] :
          sc \in FacadeScopes, f \in { "none", "write", "collection" }, id \in KnownIds }
    \cup
    { [ name |-> Tool.list_memories, fault |-> f, arguments |-> ScopeArguments(sc) ] :
          sc \in FacadeScopes, f \in { "none", "read" } }
    \cup
    { [ name |-> n, fault |-> "none", arguments |-> NoArguments ] :
          n \in { Tool.get_memory_suggestions, Tool.get_memory,
                  \* a name call_tool has no branch for: "forget_all"
                  << "f", "o", "r", "g", "e", "t", "_", "a", "l", "l" >> } }

NextFacade ==
    \/ \E c \in Providers : main(c)
    \/ \E call \in ToolCalls : call_tool(call.name, call.arguments, call.fault)

SpecFacade == InitFacade /\ [][NextFacade]_vars

(***************************************************************************)
(* C26                                                                     *)
(***************************************************************************)
\* C26: in every state, whatever the store holds and whether or not it has
\* been initialized, the get_memory_suggestions tool returns the same fixed
\* suggestions text and leaves the collections as they are.
C26_SuggestionsStorageIndependent ==
    /\ CallTool(collections, provider, uuid4(uuidCount), clock,
                Tool.get_memory_suggestions, NoArguments, "none") = SuggestionsText
    /\ CallToolEffect(collections, provider, uuid4(uuidCount), clock,
                      Tool.get_memory_suggestions, NoArguments, "none").colls = collections

(***************************************************************************)
(* C27                                                                     *)
(***************************************************************************)
StartsWith(text, prefix) ==
    Len(text) >= Len(prefix) /\ SubSeq(text, 1, Len(prefix)) = prefix

EndsWith(text, suffix) ==
    Len(text) >= Len(suffix)
    /\ SubSeq(text, Len(text) - Len(suffix) + 1, Len(text)) = suffix

\* how the texts of a success, of "not found" and of an empty result begin
SuccessOrNotFoundPrefixes ==
    { << "M", "e", "m", "o", "r", "y", " " >>, << "N", "o", " ", "m", "e", "m", "o", "r", "i", "e", "s", " ", "f", "o",
                                                  "u", "n", "d" >>,
      << "F", "o", "u", "n", "d", " " >> }

\* C27: in every state of the initialized server, for every tool other than
\* delete_memory, every request and every failing external call: when the
\* validation, the embedding provider or the index raises while the tool
\* runs, call_tool returns the text "Error executing <tool>: <cause>", with
\* the tool's name and the text of the exception, and not a text of success
\* or of "not found".
C27_FailuresSurfaceAsText ==
    provider # None =>
        \A call \in ToolCalls :
            call.name # Tool.delete_memory =>
                LET out  == ToolOutcome(collections, provider, uuid4(uuidCount), clock,
                                        call.name, call.arguments, call.fault)
                    text == CallTool(collections, provider, uuid4(uuidCount), clock,
                                     call.name, call.arguments, call.fault)
                IN  out.raised # "none" =>
                        /\ StartsWith(text, << "E", "r", "r", "o", "r", " ", "e", "x", "e", "c", "u", "t", "i", "n",
                                               "g", " " >>
                                            \o call.name \o << ":", " " >>)
                        /\ EndsWith(text, str_e(out.raised))
                        /\ \A p \in SuccessOrNotFoundPrefixes : ~ StartsWith(text, p)

\* a memory is stored; get_memory on it answers with the memory, and the
\* same call with the index's read failing answers with the error text that
\* names get_memory and the cause
C27_Witness ==
    /\ provider # None
    /\ \E sc \in FacadeScopes, id \in KnownIds :
           /\ Present(collections, provider, sc.project_id, sc.agent_id, id)
           /\ LET arguments == [ ScopeArguments(sc) EXCEPT !.memory_id = Some(id) ]
                  failed == CallTool(collections, provider, uuid4(uuidCount), clock,
                                     Tool.get_memory, arguments, "read")
                  worked == CallTool(collections, provider, uuid4(uuidCount), clock,
                                     Tool.get_memory, arguments, "none")
              IN  /\ StartsWith(worked, << "M", "e", "m", "o", "r", "y", " ", "I", "D", ":", " " >>)
                  /\ failed = << "E", "r", "r", "o", "r", " ", "e", "x", "e", "c", "u", "t", "i", "n",
                                 "g", " ", "g", "e", "t", "_", "m", "e", "m", "o", "r", "y", ":", " ",
                                 "r", "e", "a", "d", " ", "f", "a", "i", "l", "e", "d" >>

(***************************************************************************)
(* C28.  _get_collection_name as a function of its arguments: a call is    *)
(* made with identifiers drawn from all texts of up to MaxIdLen characters *)
(* over safe and unsafe characters, returns, and is made once more with    *)
(* the same identifiers.                                                   *)
(***************************************************************************)
MaxIdLen == 2

IdChars == { "a", "Z", "0", "_", "-", "@", "/" }

\* the texts of up to MaxIdLen characters, the empty one included
Ids == UNION { [ 1..n -> IdChars ] : n \in 0..MaxIdLen }

\* one call of _get_collection_name before it returns
NameCall(project_id, agent_id) ==
    [ op |-> "_get_collection_name", project_id |-> project_id, agent_id |-> agent_id,
      pc |-> "called", ret |-> None ]

InitNaming ==
    /\ provider \in Configurations
    /\ collections = << >>
    /\ uuidCount = 0
    /\ clock = 0
    /\ returned = << >>
    /\ orig = << >>
    /\ deletedTrue = { }
    /\ distance = Rational(0, 1)
    /\ similarity_score = None
    /\ \E p \in Ids, a \in Ids : inflight = << NameCall(p, a) >>
    /\ scratchpads = << >>

\* the call returns the name
return_collection_name(i) ==
    /\ inflight[i].pc = "called"
    /\ inflight' = [ inflight EXCEPT
                       ![i].pc = "returned",
                       ![i].ret = Some(get_collection_name(provider,
                                                           inflight[i].project_id,
                                                           inflight[i].agent_id)) ]
    /\ UNCHANGED << provider, collections, uuidCount, clock, returned, orig,
                    deletedTrue, distance, similarity_score, scratchpads >>

\* the same store is asked once more for the name of the same identifiers
call_again ==
    /\ Len(inflight) = 1
    /\ inflight[1].pc = "returned"
    /\ inflight' = Append(inflight, NameCall(inflight[1].project_id, inflight[1].agent_id))
    /\ UNCHANGED << provider, collections, uuidCount, clock, returned, orig,
                    deletedTrue, distance, similarity_score, scratchpads >>

NextNaming ==
    \/ \E i \in DOMAIN inflight : return_collection_name(i)
    \/ call_again

SpecNaming == InitNaming /\ [][NextNaming]_vars

\* C28: the name _get_collection_name returns is "p_", the project id with
\* every character outside [A-Za-z0-9_-] replaced by "_" and the others
\* unchanged, "_a_", the agent id treated the same way, "_emb_" and the
\* provider's name; the two id parts hold only characters of [A-Za-z0-9_-];
\* and two calls with the same identifiers return the same name.
C28_CollectionNameFormat ==
    /\ \A i \in DOMAIN inflight :
           inflight[i].pc = "returned" =>
               LET name == inflight[i].ret[1]
                   p == inflight[i].project_id
                   a == inflight[i].agent_id
                   v == provider.provider_name
                   san(c) == IF c \in SafeChars THEN c ELSE "_"
               IN  /\ Len(name) = 2 + Len(p) + 3 + Len(a) + 5 + Len(v)
                   /\ SubSeq(name, 1, 2) = << "p", "_" >>
                   /\ \A k \in 1..Len(p) : name[2 + k] = san(p[k]) /\ name[2 + k] \in SafeChars
                   /\ SubSeq(name, 2 + Len(p) + 1, 2 + Len(p) + 3) = << "_", "a", "_" >>
                   /\ \A k \in 1..Len(a) :
                          /\ name[5 + Len(p) + k] = san(a[k])
                          /\ name[5 + Len(p) + k] \in SafeChars
                   /\ SubSeq(name, 5 + Len(p) + Len(a) + 1, 5 + Len(p) + Len(a) + 5)
                          = << "_", "e", "m", "b", "_" >>
                   /\ SubSeq(name, 10 + Len(p) + Len(a) + 1, Len(name)) = v
    /\ \A i, j \in DOMAIN inflight :
           (inflight[i].pc = "returned" /\ inflight[j].pc = "returned"
            /\ inflight[i].project_id = inflight[j].project_id
            /\ inflight[i].agent_id = inflight[j].agent_id)
               => inflight[i].ret = inflight[j].ret

\* both calls for the identifiers "a@" and "/-" have returned, with the name
\* p_a__a__-_emb_local
C28_Witness ==
    /\ Len(inflight) = 2
    /\ \A i \in DOMAIN inflight :
           /\ inflight[i].pc = "returned"
           /\ inflight[i].project_id = << "a", "@" >>
           /\ inflight[i].agent_id = << "/", "-" >>
           /\ inflight[i].ret = Some(<< "p", "_", "a", "_", "_", "a", "_", "_", "-",
                                        "_", "e", "m", "b", "_", "l", "o", "c", "a", "l" >>)


(***************************************************************************)
(* Two calls of the store running at the same time.  A call is a frame in  *)
(* inflight: its operation and arguments, its position (pc), the locals it *)
(* has assigned so far (memory_id, existing, embedding), what it returned  *)
(* or raised, the collections as they were when the two calls were made    *)
(* (before), whether it took a step while the other call was between its   *)
(* first step and its return (overlapped), and where the other call was    *)
(* when this one made its write (wrote_at).  One step of a frame is one    *)
(* external call of the method with the statements up to the next one: the *)
(* collection lookup, the index's read, the provider's embed, the index's  *)
(* write.  Each call on the index is atomic, as the storage engine makes   *)
(* it.                                                                     *)
(***************************************************************************)
Frame(op, project_id, agent_id, memory_id, arg, before) ==
    [ op |-> op, project_id |-> project_id, agent_id |-> agent_id,
      memory_id |-> memory_id, arg |-> arg, pc |-> "lookup",
      existing |-> None, embedding |-> None,
      ret |-> None, raised |-> "none", before |-> before, overlapped |-> FALSE,
      wrote_at |-> "" ]

\* collection.update as update_memory calls it, on the partition as it was when
\* the call was made
update_write_before(coll, f, now) ==
    LET existing == f.existing[1] IN
    collection_update(f.before[get_collection_name(provider, f.project_id, f.agent_id)],
        f.memory_id[1], f.embedding, NewContent(f.arg, existing),
        ChromaMetadata(f.project_id, f.agent_id, NewMetadata(f.arg, existing),
            existing.embedding_provider, existing.embedding_model,
            existing.created_at, now))

\* collection.update as update_memory calls it: the one id, in the partition
\* as it is at the call
update_write(coll, f, now) ==
    LET existing == f.existing[1] IN
    collection_update(coll, f.memory_id[1], f.embedding, NewContent(f.arg, existing),
        ChromaMetadata(f.project_id, f.agent_id, NewMetadata(f.arg, existing),
            existing.embedding_provider, existing.embedding_model,
            existing.created_at, now))

\* the external call a frame is at, with the statements up to the next one:
\* the collections and the count of uuid4() draws after it, and the frame
Advance(colls, n, prov, now, f) ==
    LET name == get_collection_name(prov, f.project_id, f.agent_id)
        looked == get_or_create_collection(colls, prov, f.project_id, f.agent_id)
    IN
    IF f.pc = "lookup"
    THEN \* self._get_or_create_collection, first statement of store, get and
         \* delete, and of the get_memory that update_memory starts with
         [ colls |-> looked, n |-> n,
           f |-> [ f EXCEPT !.pc = CASE f.op = "store_memory"  -> "embed"
                                     [] f.op = "delete_memory" -> "write"
                                     [] OTHER                  -> "read" ] ]
    ELSE IF f.pc = "read"
    THEN \* collection.get(ids=[memory_id]) in get_memory; "if not existing"
         LET result == collection_get(colls[name], f.memory_id[1]) IN
         IF result = << >>
         THEN [ colls |-> colls, n |-> n, f |-> [ f EXCEPT !.pc = "done" ] ]
         ELSE [ colls |-> colls, n |-> n,
                f |-> IF f.op = "get_memory"
                      THEN [ f EXCEPT !.pc = "done",
                                      !.ret = Some(MemoryOfRecord(result[1])) ]
                      ELSE [ f EXCEPT !.pc = "embed",
                                      !.existing = Some(MemoryOfRecord(result[1])) ] ]
    ELSE IF f.pc = "embed" /\ f.op = "store_memory"
    THEN \* uuid.uuid4(), then embedding_provider.embed(content)
         [ colls |-> colls, n |-> n + 1,
           f |-> [ f EXCEPT !.pc = "write", !.memory_id = Some(uuid4(n)),
                            !.embedding = Some(embed(prov, f.arg.content)) ] ]
    ELSE IF f.pc = "embed"
    THEN \* update_memory's own collection lookup, then embed if content is given
         [ colls |-> looked, n |-> n,
           f |-> [ f EXCEPT !.pc = "write",
                            !.embedding =
                                IF ContentSupplied(f.arg, f.existing[1])
                                THEN Some(embed(prov, NewContent(f.arg, f.existing[1])))
                                ELSE None ] ]
    ELSE IF f.pc = "write" /\ f.op = "store_memory"
    THEN \* collection.add, and the Memory returned
         IF UpdateDimensionMismatch(colls[name], f.embedding, f.arg.content)
         THEN [ colls |-> colls, n |-> n,
                f |-> [ f EXCEPT !.pc = "done", !.raised = "dimension" ] ]
         ELSE
         [ colls |-> [ colls EXCEPT ![name] =
                         collection_add(@, f.memory_id[1], f.embedding[1], f.arg.content,
                             ChromaMetadata(f.project_id, f.agent_id, f.arg.metadata,
                                 prov.provider_name, prov.model_name, now, now)) ],
           n |-> n,
           f |-> [ f EXCEPT !.pc = "done",
                            !.ret = Some(Memory(f.memory_id[1], f.project_id, f.agent_id,
                                                f.arg.content, f.arg.metadata,
                                                prov.provider_name, prov.model_name,
                                                now, now)) ] ]
    ELSE IF f.pc = "write" /\ f.op = "update_memory"
    THEN \* collection.update of the one id, and the Memory returned
         LET existing == f.existing[1]
             new_content == NewContent(f.arg, existing)
             new_metadata == NewMetadata(f.arg, existing)
         IN  IF UpdateDimensionMismatch(colls[name], f.embedding, new_content)
             THEN [ colls |-> colls, n |-> n,
                    f |-> [ f EXCEPT !.pc = "done", !.raised = "dimension" ] ]
             ELSE
             [ colls |-> [ colls EXCEPT ![name] = update_write(@, f, now) ],
               n |-> n,
               f |-> [ f EXCEPT !.pc = "done",
                                !.ret = Some(Memory(f.memory_id[1], f.project_id, f.agent_id,
                                                    new_content, new_metadata,
                                                    existing.embedding_provider,
                                                    existing.embedding_model,
                                                    existing.created_at, now)) ] ]
    ELSE IF f.pc = "write"
    THEN \* delete_memory: collection.delete(ids=[memory_id]); return True
         [ colls |-> [ colls EXCEPT ![name] = collection_delete(@, f.memory_id[1]) ],
           n |-> n, f |-> [ f EXCEPT !.pc = "done", !.ret = Some(TRUE) ] ]
    ELSE [ colls |-> colls, n |-> n, f |-> f ]

\* the requests two callers can make at once: a store, and a get, an update or
\* a delete of an id a caller can name
ConcurrentUpdates == { u \in MemoryUpdates : (u.content = None) # (u.metadata = None) }

ConcurrentCalls ==
    { Frame("store_memory", sc.project_id, sc.agent_id, None,
            [ project_id |-> sc.project_id, agent_id |-> sc.agent_id,
              content |-> << "y" >>, metadata |-> << >> ], collections) :
        sc \in FacadeScopes }
    \cup { Frame(op, sc.project_id, sc.agent_id, Some(id), None, collections) :
             op \in { "get_memory", "delete_memory" }, sc \in FacadeScopes, id \in KnownIds }
    \cup { Frame("update_memory", sc.project_id, sc.agent_id, Some(id), u, collections) :
             sc \in FacadeScopes, id \in KnownIds, u \in ConcurrentUpdates }

\* a memory stored before the two callers arrive
seed(sc) ==
    /\ inflight = << >>
    /\ store_memory([ project_id |-> sc.project_id, agent_id |-> sc.agent_id,
                      content |-> << "x" >>, metadata |-> << >> ], "none")

\* two callers enter the store
begin(f, g) ==
    /\ inflight = << >>
    /\ inflight' = << f, g >>
    /\ UNCHANGED << provider, collections, uuidCount, clock, returned, orig,
                    deletedTrue, distance, similarity_score, scratchpads >>

\* the scheduler runs the next external call of one of the two
step(i) ==
    /\ Len(inflight) = 2
    /\ inflight[i].pc # "done"
    /\ LET a == Advance(collections, uuidCount, provider, clock, inflight[i])
           other == inflight[3 - i]
       IN  /\ collections' = a.colls
           /\ uuidCount' = a.n
           /\ inflight' =
                  [ inflight EXCEPT ![i] =
                      [ a.f EXCEPT !.overlapped =
                          @ \/ other.pc \notin { "lookup", "done" },
                                   !.wrote_at =
                          IF inflight[i].pc = "write" THEN other.pc ELSE @ ] ]
    /\ UNCHANGED << provider, clock, returned, orig, deletedTrue,
                    distance, similarity_score, scratchpads >>

NextConcurrent ==
    \/ \E sc \in FacadeScopes : seed(sc)
    \/ \E f \in ConcurrentCalls, g \in ConcurrentCalls : begin(f, g)
    \/ \E i \in 1..2 : step(i)

SpecConcurrent == Init /\ [][NextConcurrent]_vars

\* the call of a frame made on its own, from the collections given
Sequential(colls, prov, now, f) ==
    CASE f.op = "store_memory" ->
             StoreMemory(colls, prov, f.memory_id[1], now, f.arg, "none")
      [] f.op = "get_memory" ->
             GetMemory(colls, prov, f.project_id, f.agent_id, f.memory_id[1], "none")
      [] f.op = "update_memory" ->
             UpdateMemory(colls, prov, now, f.project_id, f.agent_id, f.memory_id[1],
                          f.arg, "none")
      [] f.op = "delete_memory" ->
             DeleteMemory(colls, prov, f.project_id, f.agent_id, f.memory_id[1], "none")

\* the collections and the two results are those of f run to its end, then g
OneAfterTheOther(f, g) ==
    LET a == Sequential(f.before, provider, clock, f)
        b == Sequential(a.colls, provider, clock, g)
    IN  /\ collections = b.colls
        /\ f.ret = a.ret /\ f.raised = a.raised
        /\ g.ret = b.ret /\ g.raised = b.raised

\* the two calls address different memory_ids, or different partitions
Independent(f, g) ==
    \/ f.op = "store_memory"
    \/ g.op = "store_memory"
    \/ f.memory_id # g.memory_id
    \/ get_collection_name(provider, f.project_id, f.agent_id)
           # get_collection_name(provider, g.project_id, g.agent_id)

BothReturned == Len(inflight) = 2 /\ \A i \in 1..2 : inflight[i].pc = "done"

\* C29: when two store/get/update/delete calls on different memory_ids, or on
\* different partitions, have both returned after any interleaving of their
\* lookups, reads, embeds and writes, the stored records and the two values
\* returned are those of running one call to its end and then the other
C29_IndependentCallsSerialize ==
    (BothReturned /\ Independent(inflight[1], inflight[2]))
        => \/ OneAfterTheOther(inflight[1], inflight[2])
           \/ OneAfterTheOther(inflight[2], inflight[1])

\* an update of a stored memory's content and a store into the same partition
\* have overlapped and both returned; the partition holds both records
C29_Witness ==
    /\ BothReturned
    /\ inflight[1].overlapped /\ inflight[2].overlapped
    /\ inflight[1].op = "update_memory" /\ inflight[2].op = "store_memory"
    /\ inflight[1].project_id = inflight[2].project_id
    /\ inflight[1].agent_id = inflight[2].agent_id
    /\ inflight[1].ret # None /\ inflight[1].ret[1].content = << "y" >>
    /\ inflight[2].ret # None
    /\ Len(CollectionOf(collections, provider, inflight[1].project_id,
                        inflight[1].agent_id).records) = 2


(***************************************************************************)
(* ScratchpadStore (src/src/scratchpad_store.py): one JSON file per        *)
(* scratchpad in the data directory.  scratchpads maps a file name to the  *)
(* members of the object the file holds, each as the JSON string literal   *)
(* json.dump writes for it.                                                *)
(***************************************************************************)
\* re.sub(r'[^\w\-.]', '_', id_string): letters, digits, "_", "-" and "." stay
sanitize_id(id_string) ==
    [ i \in 1..Len(id_string) |->
        IF id_string[i] \in SafeChars \cup { "." } THEN id_string[i] ELSE "_" ]

\* _get_filepath: the file name under data_path
get_filepath(project_id, agent_id) ==
    sanitize_id(project_id) \o << "_" >> \o sanitize_id(agent_id)
        \o << ".", "j", "s", "o", "n" >>

Scratchpad(project_id, agent_id, content, created_at, updated_at) ==
    [ project_id |-> project_id, agent_id |-> agent_id, content |-> content,
      created_at |-> created_at, updated_at |-> updated_at ]

\* _save_scratchpad: open(filepath, 'w') and json.dump of the five members
save_scratchpad(files, scratchpad) ==
    (get_filepath(scratchpad.project_id, scratchpad.agent_id) :>
        [ project_id |-> DumpString(scratchpad.project_id),
          agent_id   |-> DumpString(scratchpad.agent_id),
          content    |-> DumpString(scratchpad.content),
          created_at |-> DumpString(isoformat(scratchpad.created_at)),
          updated_at |-> DumpString(isoformat(scratchpad.updated_at)) ]) @@ files

\* json.load of one member: the text between the quotes, escapes undone
LoadString(literal) == ParseStringBody(literal, 2, << >>).val

\* _load_scratchpad: None when the file does not exist
load_scratchpad(files, filepath) ==
    IF filepath \notin DOMAIN files THEN None
    ELSE LET data == files[filepath] IN
         Some(Scratchpad(LoadString(data.project_id), LoadString(data.agent_id),
                         LoadString(data.content),
                         fromisoformat(LoadString(data.created_at)),
                         fromisoformat(LoadString(data.updated_at))))

\* create_scratchpad: the files after the call and the value returned
CreateScratchpad(files, now, create) ==
    LET filepath == get_filepath(create.project_id, create.agent_id)
        scratchpad == Scratchpad(create.project_id, create.agent_id, create.content,
                                 now, now)
    IN  IF filepath \in DOMAIN files
        THEN [ files |-> files, ret |-> None ]
        ELSE [ files |-> save_scratchpad(files, scratchpad), ret |-> Some(scratchpad) ]

\* get_scratchpad
GetScratchpad(files, project_id, agent_id) ==
    load_scratchpad(files, get_filepath(project_id, agent_id))

\* update_scratchpad: project_id, agent_id and created_at are the loaded ones
UpdateScratchpad(files, now, project_id, agent_id, update) ==
    LET existing == GetScratchpad(files, project_id, agent_id) IN
    IF existing = None THEN [ files |-> files, ret |-> None ]
    ELSE LET updated == Scratchpad(existing[1].project_id, existing[1].agent_id,
                                   update.content, existing[1].created_at, now)
         IN  [ files |-> save_scratchpad(files, updated), ret |-> Some(updated) ]

\* delete_scratchpad: False when the file does not exist, and when
\* filepath.unlink() raises OSError (fault "unlink"), which leaves the file
DeleteScratchpad(files, project_id, agent_id, fault) ==
    LET filepath == get_filepath(project_id, agent_id) IN
    IF filepath \notin DOMAIN files THEN [ files |-> files, ret |-> FALSE ]
    ELSE IF fault = "unlink" THEN [ files |-> files, ret |-> FALSE ]
    ELSE [ files |-> [ f \in DOMAIN files \ { filepath } |-> files[f] ], ret |-> TRUE ]

\* list_scratchpads: every *.json file loaded, the two optional filters
\* applied; each entry of the list with the file it was loaded from
ListScratchpads(files, project_id, agent_id) ==
    { e \in { [ file |-> f, scratchpad |-> load_scratchpad(files, f)[1] ] :
                f \in DOMAIN files } :
        /\ project_id # None => e.scratchpad.project_id = project_id[1]
        /\ agent_id # None => e.scratchpad.agent_id = agent_id[1] }

\* what the callers supply: identifiers with "_" and with a character the
\* file name does not keep, and contents with a quote or none at all
ScratchpadScopes ==
    { [ project_id |-> << "a" >>,           agent_id |-> << "a" >> ],
      [ project_id |-> << "a" >>,           agent_id |-> << "b", "_", "c" >> ],
      [ project_id |-> << "a", "_", "b" >>, agent_id |-> << "c" >> ],
      [ project_id |-> << "a", "/", "b" >>, agent_id |-> << "c" >> ] }

ScratchpadContents == { << >>, << "x" >>, << "\"", "y" >> }

ScratchpadCreates ==
    { [ project_id |-> sc.project_id, agent_id |-> sc.agent_id, content |-> c ] :
        sc \in ScratchpadScopes, c \in ScratchpadContents }

create_scratchpad(create) ==
    /\ scratchpads' = CreateScratchpad(scratchpads, clock, create).files
    /\ UNCHANGED << provider, collections, uuidCount, clock, returned, orig,
                    deletedTrue, distance, similarity_score, inflight >>

update_scratchpad(project_id, agent_id, update) ==
    /\ scratchpads' = UpdateScratchpad(scratchpads, clock, project_id, agent_id, update).files
    /\ UNCHANGED << provider, collections, uuidCount, clock, returned, orig,
                    deletedTrue, distance, similarity_score, inflight >>

delete_scratchpad(project_id, agent_id, fault) ==
    /\ scratchpads' = DeleteScratchpad(scratchpads, project_id, agent_id, fault).files
    /\ UNCHANGED << provider, collections, uuidCount, clock, returned, orig,
                    deletedTrue, distance, similarity_score, inflight >>

NextScratchpad ==
    \/ \E create \in ScratchpadCreates : create_scratchpad(create)
    \/ \E sc \in ScratchpadScopes, c \in ScratchpadContents :
           update_scratchpad(sc.project_id, sc.agent_id, [ content |-> c ])
    \/ \E sc \in ScratchpadScopes, fault \in { "none", "unlink" } :
           delete_scratchpad(sc.project_id, sc.agent_id, fault)
    \/ Tick

SpecScratchpad == Init /\ [][NextScratchpad]_vars

\* the scratchpads stored for the pair
ScratchpadsOf(files, project_id, agent_id) ==
    ListScratchpads(files, Some(project_id), Some(agent_id))

\* C30: create_scratchpad for a (project_id, agent_id) that has a scratchpad
\* returns None and leaves the stored scratchpads as they are; for a pair that
\* has none it returns a scratchpad with the given content and created_at equal
\* to updated_at, which get_scratchpad then returns; and no pair ever has more
\* than one scratchpad
C30_CreateOncePerPair ==
    /\ \A create \in ScratchpadCreates :
         LET out == CreateScratchpad(scratchpads, clock, create) IN
         IF ScratchpadsOf(scratchpads, create.project_id, create.agent_id) # { }
         THEN out.ret = None /\ out.files = scratchpads
         ELSE /\ out.ret # None
              /\ out.ret[1].project_id = create.project_id
              /\ out.ret[1].agent_id = create.agent_id
              /\ out.ret[1].content = create.content
              /\ out.ret[1].created_at = out.ret[1].updated_at
              /\ GetScratchpad(out.files, create.project_id, create.agent_id) = out.ret
    /\ \A sc \in ScratchpadScopes :
         Cardinality(ScratchpadsOf(scratchpads, sc.project_id, sc.agent_id)) <= 1


\* C31: on a working file system delete_scratchpad returns True exactly when
\* a scratchpad is stored for (project_id, agent_id); get_scratchpad for the
\* pair then returns None and create_scratchpad for it returns a scratchpad;
\* when it returns False the files are as before, and a delete that follows a
\* delete returns False
C31_DeleteReturnsWhetherExisted ==
    \A sc \in ScratchpadScopes :
        LET out == DeleteScratchpad(scratchpads, sc.project_id, sc.agent_id, "none")
            again == DeleteScratchpad(out.files, sc.project_id, sc.agent_id, "none")
        IN  /\ out.ret = (ScratchpadsOf(scratchpads, sc.project_id, sc.agent_id) # { })
            /\ out.ret =>
                 /\ GetScratchpad(out.files, sc.project_id, sc.agent_id) = None
                 /\ \A c \in ScratchpadContents :
                      CreateScratchpad(out.files, clock,
                          [ project_id |-> sc.project_id, agent_id |-> sc.agent_id,
                            content |-> c ]).ret # None
            /\ ~out.ret => out.files = scratchpads
            /\ again.ret = FALSE /\ again.files = out.files


\* C32: update_scratchpad for a pair that has no scratchpad returns None and
\* leaves the files as they are; for a pair that has one it returns the
\* scratchpad of that pair with the supplied content, the stored created_at
\* and updated_at the current instant, not before created_at, and
\* get_scratchpad then returns it
C32_UpdateReplacesContent ==
    \A sc \in ScratchpadScopes, c \in ScratchpadContents :
        LET out == UpdateScratchpad(scratchpads, clock, sc.project_id, sc.agent_id,
                                    [ content |-> c ])
            stored == ScratchpadsOf(scratchpads, sc.project_id, sc.agent_id)
        IN  IF stored = { }
            THEN out.ret = None /\ out.files = scratchpads
            ELSE /\ out.ret # None
                 /\ out.ret[1].content = c
                 /\ out.ret[1].project_id = sc.project_id
                 /\ out.ret[1].agent_id = sc.agent_id
                 /\ \A e \in stored : out.ret[1].created_at = e.scratchpad.created_at
                 /\ out.ret[1].updated_at = clock
                 /\ out.ret[1].updated_at >= out.ret[1].created_at
                 /\ GetScratchpad(out.files, sc.project_id, sc.agent_id) = out.ret

\* C37: get_scratchpad(p, a) returns None or a scratchpad whose project_id is
\* p and whose agent_id is a; and a create_scratchpad that would return a
\* scratchpad still does after a create_scratchpad for another pair
C37_ScratchpadIsolation ==
    /\ \A sc \in ScratchpadScopes :
         LET got == GetScratchpad(scratchpads, sc.project_id, sc.agent_id) IN
         got = None \/ (got[1].project_id = sc.project_id /\ got[1].agent_id = sc.agent_id)
    /\ \A c1 \in ScratchpadCreates, c2 \in ScratchpadCreates :
         (<< c1.project_id, c1.agent_id >> # << c2.project_id, c2.agent_id >>
            /\ CreateScratchpad(scratchpads, clock, c2).ret # None)
         => CreateScratchpad(CreateScratchpad(scratchpads, clock, c1).files, clock, c2).ret
                # None


(***************************************************************************)
(* create_scratchpad called by two callers at a time on the same data      *)
(* directory.  A call is a frame in inflight: its request, its position,   *)
(* the instant it has read and the value it returned.  The call has two    *)
(* accesses to the directory, filepath.exists() and _save_scratchpad, and  *)
(* no lock around them.                                                    *)
(***************************************************************************)
CreateCall(create) ==
    [ op |-> "create_scratchpad", create |-> create, pc |-> "exists",
      now |-> None, ret |-> None ]

enter_create(c1, c2) ==
    /\ inflight = << >>
    /\ inflight' = << CreateCall(c1), CreateCall(c2) >>
    /\ UNCHANGED << provider, collections, uuidCount, clock, returned, orig,
                    deletedTrue, distance, similarity_score, scratchpads >>

\* the next access of one of the calls: "if filepath.exists(): return None",
\* else datetime.now(); then _save_scratchpad and the return of the scratchpad
create_scratchpad_step(i) ==
    /\ i \in DOMAIN inflight
    /\ inflight[i].op = "create_scratchpad"
    /\ LET f == inflight[i]
           scratchpad == Scratchpad(f.create.project_id, f.create.agent_id,
                                    f.create.content, f.now[1], f.now[1])
       IN  \/ /\ f.pc = "exists"
              /\ inflight' =
                    [ inflight EXCEPT ![i] =
                        IF get_filepath(f.create.project_id, f.create.agent_id)
                               \in DOMAIN scratchpads
                        THEN [ f EXCEPT !.pc = "done" ]
                        ELSE [ f EXCEPT !.pc = "save", !.now = Some(clock) ] ]
              /\ UNCHANGED scratchpads
           \/ /\ f.pc = "save"
              /\ scratchpads' = save_scratchpad(scratchpads, scratchpad)
              /\ inflight' = [ inflight EXCEPT ![i] =
                                 [ f EXCEPT !.pc = "done", !.ret = Some(scratchpad) ] ]
    /\ UNCHANGED << provider, collections, uuidCount, clock, returned, orig,
                    deletedTrue, distance, similarity_score >>

NextCreateRace ==
    \/ \E c1 \in ScratchpadCreates, c2 \in ScratchpadCreates : enter_create(c1, c2)
    \/ \E i \in 1..2 : create_scratchpad_step(i)
    \/ \E create \in ScratchpadCreates : inflight = << >> /\ create_scratchpad(create)
    \/ Tick

SpecCreateRace == Init /\ [][NextCreateRace]_vars

\* C38: when two concurrent create_scratchpad calls for the same
\* (project_id, agent_id) have both returned, at most one of them has returned
\* a scratchpad, and a scratchpad that was returned is the one stored
C38_OneCreateWins ==
    (/\ Len(inflight) = 2
     /\ \A i \in 1..2 : inflight[i].op = "create_scratchpad" /\ inflight[i].pc = "done"
     /\ inflight[1].create.project_id = inflight[2].create.project_id
     /\ inflight[1].create.agent_id = inflight[2].create.agent_id)
    => /\ inflight[1].ret = None \/ inflight[2].ret = None
       /\ \A i \in 1..2 :
            inflight[i].ret # None
              => GetScratchpad(scratchpads, inflight[i].create.project_id,
                               inflight[i].create.agent_id) = inflight[i].ret


\* C35: list_memories with a filters argument returns only memories of the
\* scope whose metadata satisfies the filters
C35_ListHonoursFilters ==
    \A sc \in Scopes, k \in ListLimits, o \in ListOffsets, w \in Filters \ { None } :
        LET out == ListMemories(collections, provider, sc.project_id, sc.agent_id,
                                k, o, w, "none")
        IN  \A i \in 1..Len(out.ret) : Satisfies(out.ret[i].metadata, w)


\* a >= b for two fractions with positive denominators
RationalGeq(a, b) == a.num * b.den >= b.num * a.den

\* C36: search_memories returns the memories in the order the index returned
\* them, and the similarity_score values of the list do not increase from
\* first to last
C36_RankingPreserved ==
    \A sc \in Scopes, q \in Queries, k \in SearchLimits, w \in Filters :
        LET out == SearchMemories(collections, provider, sc.project_id, sc.agent_id,
                                  q, k, w, "none")
            results == collection_query(
                           CollectionOf(out.colls, provider, sc.project_id, sc.agent_id),
                           embed(provider, q), k,
                           IF w # None /\ w[1] # << >> THEN w ELSE None)
        IN  out.raised = "none" =>
              /\ [ i \in 1..Len(out.ret) |-> out.ret[i].memory.memory_id ] = IdsOf([ records |-> results ])
              /\ \A i \in 1..Len(out.ret), j \in 1..Len(out.ret) :
                   i < j => RationalGeq(out.ret[i].similarity_score,
                                        out.ret[j].similarity_score)

\* a search for "x" in a partition that holds "y" stored before "x" returns
\* the memory "x" first, with score 1, and then "y", with score 1/2
C36_Witness ==
    \E sc \in Scopes :
        LET name == get_collection_name(provider, sc.project_id, sc.agent_id)
            out == SearchMemories(collections, provider, sc.project_id, sc.agent_id,
                                  << "x" >>, 2, None, "none")
        IN  /\ name \in DOMAIN collections
            /\ Len(collections[name].records) = 2
            /\ collections[name].records[1].document = << "y" >>
            /\ collections[name].records[2].document = << "x" >>
            /\ out.raised = "none"
            /\ Len(out.ret) = 2
            /\ out.ret[1].memory.content = << "x" >>
            /\ out.ret[1].similarity_score = Rational(1, 1)
            /\ out.ret[2].memory.content = << "y" >>
            /\ out.ret[2].similarity_score = Rational(1, 2)


\* the two calls in flight are `op1` and `op2`, in either order, on the same
\* memory_id of the same partition
SameMemory(op1, op2) ==
    /\ Len(inflight) = 2
    /\ \E i \in 1..2 : inflight[i].op = op1 /\ inflight[3 - i].op = op2
    /\ inflight[1].memory_id = inflight[2].memory_id
    /\ inflight[1].project_id = inflight[2].project_id
    /\ inflight[1].agent_id = inflight[2].agent_id

\* C33: when two update_memory calls on the same memory_id have both
\* completed, after any interleaving of their reads and writes, the stored
\* vector of the memory is the embedding of its stored content
C33_VectorOfContentAfterRace ==
    (BothReturned /\ SameMemory("update_memory", "update_memory"))
        => \A r \in Range(collection_get(
                              CollectionOf(collections, provider, inflight[1].project_id,
                                           inflight[1].agent_id),
                              inflight[1].memory_id[1])) :
               r.embedding = embed(provider, r.document)


\* the frame of the call `op` among the two in flight
FrameOf(op) == inflight[CHOOSE i \in 1..2 : inflight[i].op = op]

\* C34: when update_memory and delete_memory on the same stored memory have
\* both completed and delete_memory has returned True, get_memory returns
\* None for it, whatever the interleaving of their steps was
C34_DeleteWinsOverRacingUpdate ==
    (/\ BothReturned
     /\ SameMemory("update_memory", "delete_memory")
     /\ FrameOf("delete_memory").ret = Some(TRUE))
        => GetMemory(collections, provider, inflight[1].project_id, inflight[1].agent_id,
                     inflight[1].memory_id[1], "none").ret = None

\* the update read the stored memory, the delete then ran to its end while the
\* update was about to write, and the update has written and returned the
\* memory
C34_Witness ==
    /\ BothReturned
    /\ SameMemory("update_memory", "delete_memory")
    /\ FrameOf("delete_memory").ret = Some(TRUE)
    /\ FrameOf("delete_memory").wrote_at = "write"
    /\ FrameOf("update_memory").wrote_at = "done"
    /\ FrameOf("update_memory").existing # None
    /\ FrameOf("update_memory").ret # None
    /\ FrameOf("update_memory").arg.content = Some(<< "y" >>)

=============================================================================
